---- MODULE Spec2Model ----
(* A model of the OAuth demo client: the localStorage-backed session      *)
(* (src/lib/oauth.ts), the home page (src/app/page.tsx) and the callback  *)
(* page (src/app/callback/page.tsx).                                       *)
(*                                                                         *)
(* JavaScript strings are TLA+ strings; characters are read with SubSeq.   *)
(* Ordered string maps (URLSearchParams, Record<string,string>) are        *)
(* sequences of <<key, value>> pairs in insertion order.                   *)
EXTENDS Integers, Sequences, FiniteSets, TLC

VARIABLES
    localStorage,   \* window.localStorage: key -> string, or null when absent
    page,           \* the document shown: "blank", "home", "provider", "callback", "lib"
    location,       \* window.location.href of the last navigation
    searchParams,   \* callback page: useSearchParams(), [code, state, error]
    home,           \* HomePage component state (useState values)
    callback,       \* Callback component state (useState values)
    pending,        \* fetch() calls awaiting their response
    fetched,        \* requests issued by the current document, or by the last library call
    result,         \* the last library function or token-operation handler called, and its value
    history         \* what the session was last asked to do (state operation, verifier, flow)

vars == <<localStorage, page, location, searchParams, home, callback,
          pending, fetched, result, history>>

-----------------------------------------------------------------------------
(* JavaScript values *)

\* null and undefined are modelled by two strings no program string equals
\* (no modelled string contains "<").
null == "<null>"
undefined == "<undefined>"

\* String(v), as applied by template literals and by Storage.setItem
StringOf(v) ==
    IF v = undefined THEN "undefined" ELSE IF v = null THEN "null" ELSE v

\* ToBoolean on a string-or-null-or-undefined value
Truthy(v) == v \notin {null, undefined, ""}

\* a || b
OrElse(a, b) == IF Truthy(a) THEN a ELSE b

WhiteSpace == {" ", "\t", "\n"}

RECURSIVE trimStart(_)
trimStart(s) ==
    IF Len(s) > 0 /\ SubSeq(s, 1, 1) \in WhiteSpace
    THEN trimStart(SubSeq(s, 2, Len(s)))
    ELSE s

RECURSIVE trimEnd(_)
trimEnd(s) ==
    IF Len(s) > 0 /\ SubSeq(s, Len(s), Len(s)) \in WhiteSpace
    THEN trimEnd(SubSeq(s, 1, Len(s) - 1))
    ELSE s

\* String.prototype.trim
trim(s) == trimEnd(trimStart(s))

-----------------------------------------------------------------------------
(* Ordered string maps *)

RECURSIVE HasKey(_, _)
HasKey(entries, k) ==
    IF entries = <<>> THEN FALSE
    ELSE Head(entries)[1] = k \/ HasKey(Tail(entries), k)

\* first value stored under k, null when there is none (URLSearchParams.get)
RECURSIVE Get(_, _)
Get(entries, k) ==
    IF entries = <<>> THEN null
    ELSE IF Head(entries)[1] = k THEN Head(entries)[2]
    ELSE Get(Tail(entries), k)

\* number of entries stored under k
RECURSIVE Count(_, _)
Count(entries, k) ==
    IF entries = <<>> THEN 0
    ELSE (IF Head(entries)[1] = k THEN 1 ELSE 0) + Count(Tail(entries), k)

\* obj[k] = v on an object: overwrite in place, or add as the last key
RECURSIVE Assign(_, _, _)
Assign(entries, k, v) ==
    IF entries = <<>> THEN << <<k, v>> >>
    ELSE IF Head(entries)[1] = k THEN << <<k, v>> >> \o Tail(entries)
    ELSE <<Head(entries)>> \o Assign(Tail(entries), k, v)

\* delete obj[k]
RECURSIVE Delete(_, _)
Delete(entries, k) ==
    IF entries = <<>> THEN <<>>
    ELSE IF Head(entries)[1] = k THEN Delete(Tail(entries), k)
    ELSE <<Head(entries)>> \o Delete(Tail(entries), k)

\* URLSearchParams.append
Append2(entries, k, v) == entries \o << <<k, v>> >>

-----------------------------------------------------------------------------
(* application/x-www-form-urlencoded, as URLSearchParams.toString writes it *)
(* and as the receiving end reads it                                        *)

Alnum ==
    {"a","b","c","d","e","f","g","h","i","j","k","l","m","n","o","p","q","r",
     "s","t","u","v","w","x","y","z","A","B","C","D","E","F","G","H","I","J",
     "K","L","M","N","O","P","Q","R","S","T","U","V","W","X","Y","Z","0","1",
     "2","3","4","5","6","7","8","9"}

\* bytes the form serializer leaves as they are
Unreserved == Alnum \cup {"*", "-", ".", "_"}

\* the percent codes of the other characters that occur in the model
PercentCode ==
    [c \in {":", "/", "?", "&", "=", "+", "%", "\t", "\n", "{", "}", ",", "<", ">"} |->
        CASE c = ":" -> "%3A" [] c = "/" -> "%2F" [] c = "?" -> "%3F"
          [] c = "&" -> "%26" [] c = "=" -> "%3D" [] c = "+" -> "%2B"
          [] c = "%" -> "%25" [] c = "\t" -> "%09" [] c = "\n" -> "%0A"
          [] c = "{" -> "%7B" [] c = "}" -> "%7D" [] c = "," -> "%2C"
          [] c = "<" -> "%3C" [] c = ">" -> "%3E"]

RECURSIVE FormEncode(_)
FormEncode(s) ==
    IF Len(s) = 0 THEN ""
    ELSE LET c == SubSeq(s, 1, 1)
             e == IF c \in Unreserved THEN c
                  ELSE IF c = " " THEN "+"
                  ELSE PercentCode[c]
         IN  e \o FormEncode(SubSeq(s, 2, Len(s)))

RECURSIVE FormDecode(_)
FormDecode(s) ==
    IF Len(s) = 0 THEN ""
    ELSE LET c == SubSeq(s, 1, 1) IN
         IF c = "+" THEN " " \o FormDecode(SubSeq(s, 2, Len(s)))
         ELSE IF c = "%" /\ Len(s) >= 3
                 /\ \E d \in DOMAIN PercentCode : PercentCode[d] = SubSeq(s, 1, 3)
              THEN (CHOOSE d \in DOMAIN PercentCode : PercentCode[d] = SubSeq(s, 1, 3))
                   \o FormDecode(SubSeq(s, 4, Len(s)))
         ELSE c \o FormDecode(SubSeq(s, 2, Len(s)))

\* URLSearchParams.prototype.toString
RECURSIVE toString(_)
toString(entries) ==
    IF entries = <<>> THEN ""
    ELSE FormEncode(Head(entries)[1]) \o "=" \o FormEncode(Head(entries)[2])
         \o (IF Len(entries) > 1 THEN "&" \o toString(Tail(entries)) ELSE "")

\* index of the first occurrence of the character c in s, 0 when there is none
RECURSIVE IndexOf(_, _, _)
IndexOf(s, c, from) ==
    IF from > Len(s) THEN 0
    ELSE IF SubSeq(s, from, from) = c THEN from
    ELSE IndexOf(s, c, from + 1)

\* String.prototype.split on a one-character separator
RECURSIVE split(_, _)
split(s, sep) ==
    LET i == IndexOf(s, sep, 1) IN
    IF i = 0 THEN <<s>>
    ELSE <<SubSeq(s, 1, i - 1)>> \o split(SubSeq(s, i + 1, Len(s)), sep)

RECURSIVE ParsePairs(_)
ParsePairs(parts) ==
    IF parts = <<>> THEN <<>>
    ELSE LET p == Head(parts)
             i == IndexOf(p, "=", 1)
             kv == IF i = 0 THEN <<FormDecode(p), "">>
                   ELSE <<FormDecode(SubSeq(p, 1, i - 1)),
                          FormDecode(SubSeq(p, i + 1, Len(p)))>>
         IN  (IF p = "" THEN <<>> ELSE <<kv>>) \o ParsePairs(Tail(parts))

\* new URLSearchParams(string): the entries a form-encoded string carries
ParseForm(s) == ParsePairs(split(s, "&"))

\* new URL(url).searchParams: the entries of the query part of a URL
ParseQuery(url) ==
    LET i == IndexOf(url, "?", 1) IN
    IF i = 0 THEN <<>> ELSE ParseForm(SubSeq(url, i + 1, Len(url)))

-----------------------------------------------------------------------------
(* Configuration: process.env.NEXT_PUBLIC_* *)

FAPI_URL == "https://idp.test"
CLIENT_ID == "client_1"
CLIENT_SECRET == "s3cret"
REDIRECT_URI == "http://localhost:3021/callback"

-----------------------------------------------------------------------------
(* PKCE and state values *)

\* outputs of generateCodeVerifier: 32 random bytes, Base64, made URL safe
GeneratedVerifiers ==
    {"dBjftJeZ4CVP-mB92K27uhbUJU1p1r_wW1gFWFOEjXk",
     "Qm9iJ3Mgc2VjcmV0IHZlcmlmaWVyIGZvciBQS0NFIQ_-x1Y"}

\* verifiers a user types into the Code Verifier input
TypedVerifiers == {"", "a+b c"}

Verifiers == GeneratedVerifiers \cup TypedVerifiers

\* CryptoJS.SHA256(verifier).toString(CryptoJS.enc.Base64) on the verifiers
\* of the model (the digests are the real ones)
SHA256Base64 ==
    [v \in Verifiers |->
        CASE v = "" -> "47DEQpj8HBSa+/TImW+5JCeuQeRkm5NMpJWZG3hSuFU="
          [] v = "dBjftJeZ4CVP-mB92K27uhbUJU1p1r_wW1gFWFOEjXk"
                -> "E9Melhoa2OwvFrEMTJguCHaoeK1t8URWbuGJSstw+cM="
          [] v = "Qm9iJ3Mgc2VjcmV0IHZlcmlmaWVyIGZvciBQS0NFIQ_-x1Y"
                -> "ysznPmuLQ8Vx4OCXciZ15Bn0tlBR9WIccZxZduYcM1w="
          [] v = "a+b c" -> "olwaWFYqKW89VQvZSrR8Yke1E9NZVfuvuSrssiQDuNA="]

\* String.prototype.replace(/c/g, by) for a one-character pattern
RECURSIVE replaceAll(_, _, _)
replaceAll(s, c, by) ==
    IF Len(s) = 0 THEN ""
    ELSE (IF SubSeq(s, 1, 1) = c THEN by ELSE SubSeq(s, 1, 1))
         \o replaceAll(SubSeq(s, 2, Len(s)), c, by)

generateCodeChallenge(verifier) ==
    replaceAll(replaceAll(replaceAll(SHA256Base64[verifier], "+", "-"), "/", "_"), "=", "")

\* outputs of generateState: nanoid(), 21 characters of A-Za-z0-9_-
GeneratedStates == {"V1StGXR8_Z5jdHi6B-myT", "k3Jx0_aQ-9pLmN2vB7cYd"}

\* state values a user types into the state input
TypedStates == {"", "abc", "a&state=b"}

States == GeneratedStates \cup TypedStates

-----------------------------------------------------------------------------
(* tokenStore: the session, kept in localStorage *)

StorageKeys ==
    {"oauth_access_token", "oauth_refresh_token", "oauth_id_token",
     "oauth_code_verifier", "oauth_state", "oauth_state_mode",
     "oauth_flow", "oauth_prompt"}

\* the localStorage key behind each tokenStore property
StorageKey ==
    [accessToken |-> "oauth_access_token", refreshToken |-> "oauth_refresh_token",
     idToken |-> "oauth_id_token", codeVerifier |-> "oauth_code_verifier",
     state |-> "oauth_state", stateMode |-> "oauth_state_mode",
     flow |-> "oauth_flow", prompt |-> "oauth_prompt"]

\* Storage.setItem: the value is converted to a string
setItem(ls, key, value) == [ls EXCEPT ![key] = StringOf(value)]

\* Storage.removeItem
removeItem(ls, key) == [ls EXCEPT ![key] = null]

\* the getters of tokenStore
tokenStore(ls) ==
    [accessToken  |-> OrElse(ls["oauth_access_token"], ""),
     refreshToken |-> OrElse(ls["oauth_refresh_token"], ""),
     idToken      |-> OrElse(ls["oauth_id_token"], ""),
     codeVerifier |-> OrElse(ls["oauth_code_verifier"], ""),
     state        |-> OrElse(ls["oauth_state"], ""),
     stateMode    |-> OrElse(ls["oauth_state_mode"], "enabled"),
     flow         |-> OrElse(ls["oauth_flow"], "public"),
     prompt       |-> OrElse(ls["oauth_prompt"], "")]

\* the setters of tokenStore: tokenStore.<property> = value
tokenStoreSet(ls, property, value) == setItem(ls, StorageKey[property], value)

\* resetTokenStore that leaves the flow in place
resetTokenStore_KeepsFlow(ls) ==
    removeItem(removeItem(removeItem(removeItem(removeItem(removeItem(
    removeItem(ls, "oauth_access_token"), "oauth_refresh_token"), "oauth_id_token"),
    "oauth_code_verifier"), "oauth_state"), "oauth_state_mode"),
    "oauth_prompt")

resetTokenStore(ls) ==
    removeItem(removeItem(removeItem(removeItem(removeItem(removeItem(removeItem(
    removeItem(ls, "oauth_access_token"), "oauth_refresh_token"), "oauth_id_token"),
    "oauth_code_verifier"), "oauth_state"), "oauth_state_mode"), "oauth_flow"),
    "oauth_prompt")

-----------------------------------------------------------------------------
(* State management functions; each returns the store it leaves and its value *)

\* initializeState that generates a state whenever the mode is not removed
initializeState_AlwaysGenerates(ls, newState) ==
    IF tokenStore(ls).stateMode = "removed" THEN [store |-> ls, value |-> ""]
    ELSE [store |-> tokenStoreSet(tokenStoreSet(ls, "state", newState),
                                  "stateMode", "enabled"),
          value |-> newState]

\* newState is the value generateState() returns when it is called
initializeState(ls, newState) ==
    IF tokenStore(ls).stateMode = "removed" THEN [store |-> ls, value |-> ""]
    ELSE IF Truthy(tokenStore(ls).state)
         THEN [store |-> ls, value |-> tokenStore(ls).state]
    ELSE [store |-> tokenStoreSet(tokenStoreSet(ls, "state", newState),
                                  "stateMode", "enabled"),
          value |-> newState]

refreshState(ls, newState) ==
    [store |-> tokenStoreSet(tokenStoreSet(ls, "state", newState),
                             "stateMode", "enabled"),
     value |-> newState]

\* removeState that sets the mode and leaves the stored value as it was
removeState_KeepsState(ls) == tokenStoreSet(ls, "stateMode", "removed")

\* removeState that clears the value and leaves the mode as it was
removeState_KeepsMode(ls) == tokenStoreSet(ls, "state", "")

removeState(ls) == tokenStoreSet(tokenStoreSet(ls, "state", ""), "stateMode", "removed")

isStateRemoved(ls) == tokenStore(ls).stateMode = "removed"

-----------------------------------------------------------------------------
(* Authorization request *)

\* AuthParams whose scope goes with the state parameter: a removed state
\* takes the scope out of the request too
AuthParams_ScopeWithState(ls, state, codeVerifier, codeChallengeMethod, usePKCE, prompt) ==
    LET finalCodeChallenge ==
            IF usePKCE /\ codeChallengeMethod # "omit"
            THEN IF codeChallengeMethod = "plain" THEN codeVerifier
                 ELSE generateCodeChallenge(codeVerifier)
            ELSE ""
        base == << <<"response_type", "code">>, <<"client_id", CLIENT_ID>>,
                   <<"redirect_uri", REDIRECT_URI>> >>
        withPKCE ==
            IF usePKCE /\ codeChallengeMethod # "omit"
            THEN Append2(Append2(base, "code_challenge", finalCodeChallenge),
                         "code_challenge_method", codeChallengeMethod)
            ELSE base
        withState ==
            IF ~isStateRemoved(ls)
            THEN Append2(Append2(withPKCE, "scope", "email profile"), "state", state)
            ELSE withPKCE
    IN  IF trim(prompt) # "" THEN Append2(withState, "prompt", prompt)
        ELSE withState

\* AuthParams with `if (prompt !== "")` in place of `if (prompt.trim() !== "")`
AuthParams_UntrimmedPrompt(ls, state, codeVerifier, codeChallengeMethod, usePKCE, prompt) ==
    LET finalCodeChallenge ==
            IF usePKCE /\ codeChallengeMethod # "omit"
            THEN IF codeChallengeMethod = "plain" THEN codeVerifier
                 ELSE generateCodeChallenge(codeVerifier)
            ELSE ""
        base == << <<"response_type", "code">>, <<"client_id", CLIENT_ID>>,
                   <<"redirect_uri", REDIRECT_URI>>, <<"scope", "email profile">> >>
        withPKCE ==
            IF usePKCE /\ codeChallengeMethod # "omit"
            THEN Append2(Append2(base, "code_challenge", finalCodeChallenge),
                         "code_challenge_method", codeChallengeMethod)
            ELSE base
        withState ==
            IF ~isStateRemoved(ls) THEN Append2(withPKCE, "state", state)
            ELSE withPKCE
    IN  IF prompt # "" THEN Append2(withState, "prompt", prompt)
        ELSE withState

\* AuthParams with `if (state)` in place of `if (!isStateRemoved())`
AuthParams_SkipsEmptyState(ls, state, codeVerifier, codeChallengeMethod, usePKCE, prompt) ==
    LET finalCodeChallenge ==
            IF usePKCE /\ codeChallengeMethod # "omit"
            THEN IF codeChallengeMethod = "plain" THEN codeVerifier
                 ELSE generateCodeChallenge(codeVerifier)
            ELSE ""
        base == << <<"response_type", "code">>, <<"client_id", CLIENT_ID>>,
                   <<"redirect_uri", REDIRECT_URI>>, <<"scope", "email profile">> >>
        withPKCE ==
            IF usePKCE /\ codeChallengeMethod # "omit"
            THEN Append2(Append2(base, "code_challenge", finalCodeChallenge),
                         "code_challenge_method", codeChallengeMethod)
            ELSE base
        withState ==
            IF Truthy(state) THEN Append2(withPKCE, "state", state)
            ELSE withPKCE
    IN  IF trim(prompt) # "" THEN Append2(withState, "prompt", prompt)
        ELSE withState

\* AuthParams that hashes the verifier whatever the method
AuthParams_AlwaysHashes(ls, state, codeVerifier, codeChallengeMethod, usePKCE, prompt) ==
    LET finalCodeChallenge ==
            IF usePKCE /\ codeChallengeMethod # "omit"
            THEN generateCodeChallenge(codeVerifier)
            ELSE ""
        base == << <<"response_type", "code">>, <<"client_id", CLIENT_ID>>,
                   <<"redirect_uri", REDIRECT_URI>>, <<"scope", "email profile">> >>
        withPKCE ==
            IF usePKCE /\ codeChallengeMethod # "omit"
            THEN Append2(Append2(base, "code_challenge", finalCodeChallenge),
                         "code_challenge_method", codeChallengeMethod)
            ELSE base
        withState ==
            IF ~isStateRemoved(ls) THEN Append2(withPKCE, "state", state)
            ELSE withPKCE
    IN  IF trim(prompt) # "" THEN Append2(withState, "prompt", prompt)
        ELSE withState

\* the query parameters both URL builders assemble; ls is the store at the
\* time isStateRemoved() is called
AuthParams(ls, state, codeVerifier, codeChallengeMethod, usePKCE, prompt) ==
    LET finalCodeChallenge ==
            IF usePKCE /\ codeChallengeMethod # "omit"
            THEN IF codeChallengeMethod = "plain" THEN codeVerifier
                 ELSE generateCodeChallenge(codeVerifier)
            ELSE ""
        base == << <<"response_type", "code">>, <<"client_id", CLIENT_ID>>,
                   <<"redirect_uri", REDIRECT_URI>>, <<"scope", "email profile">> >>
        withPKCE ==
            IF usePKCE /\ codeChallengeMethod # "omit"
            THEN Append2(Append2(base, "code_challenge", finalCodeChallenge),
                         "code_challenge_method", codeChallengeMethod)
            ELSE base
        withState ==
            IF ~isStateRemoved(ls) THEN Append2(withPKCE, "state", state)
            ELSE withPKCE
    IN  IF trim(prompt) # "" THEN Append2(withState, "prompt", prompt)
        ELSE withState

\* generateAuthUrl that stores the challenge it sends instead of the verifier
generateAuthUrl_StoresChallenge(ls, flow, state, codeVerifier, codeChallengeMethod, usePKCE, prompt) ==
    LET finalCodeChallenge ==
            IF usePKCE /\ codeChallengeMethod # "omit"
            THEN IF codeChallengeMethod = "plain" THEN codeVerifier
                 ELSE generateCodeChallenge(codeVerifier)
            ELSE ""
        stored ==
            tokenStoreSet(tokenStoreSet(tokenStoreSet(tokenStoreSet(ls,
                "codeVerifier", finalCodeChallenge), "state", state),
                "flow", flow), "prompt", prompt)
    IN  [store |-> stored,
         value |-> FAPI_URL \o "/oauth/authorize?" \o
                   toString(AuthParams(stored, state, codeVerifier,
                                       codeChallengeMethod, usePKCE, prompt))]

\* generateAuthUrl that stores the verifier only when PKCE is active
generateAuthUrl_KeepsVerifier(ls, flow, state, codeVerifier, codeChallengeMethod, usePKCE, prompt) ==
    LET withVerifier ==
            IF usePKCE /\ codeChallengeMethod # "omit"
            THEN tokenStoreSet(ls, "codeVerifier", codeVerifier) ELSE ls
        stored ==
            tokenStoreSet(tokenStoreSet(tokenStoreSet(withVerifier,
                "state", state), "flow", flow), "prompt", prompt)
    IN  [store |-> stored,
         value |-> FAPI_URL \o "/oauth/authorize?" \o
                   toString(AuthParams(stored, state, codeVerifier,
                                       codeChallengeMethod, usePKCE, prompt))]

generateAuthUrl(ls, flow, state, codeVerifier, codeChallengeMethod, usePKCE, prompt) ==
    LET finalCodeVerifier ==
            IF usePKCE /\ codeChallengeMethod # "omit" THEN codeVerifier ELSE ""
        stored ==
            tokenStoreSet(tokenStoreSet(tokenStoreSet(tokenStoreSet(ls,
                "codeVerifier", finalCodeVerifier), "state", state),
                "flow", flow), "prompt", prompt)
    IN  [store |-> stored,
         value |-> FAPI_URL \o "/oauth/authorize?" \o
                   toString(AuthParams(stored, state, codeVerifier,
                                       codeChallengeMethod, usePKCE, prompt))]

\* generateAuthUrlPreview that shows the stored state, not the one passed
generateAuthUrlPreview_StoredState(ls, flow, state, codeVerifier, codeChallengeMethod, usePKCE, prompt) ==
    FAPI_URL \o "/oauth/authorize?" \o
    toString(AuthParams(ls, tokenStore(ls).state, codeVerifier,
                        codeChallengeMethod, usePKCE, prompt))

generateAuthUrlPreview(ls, flow, state, codeVerifier, codeChallengeMethod, usePKCE, prompt) ==
    FAPI_URL \o "/oauth/authorize?" \o
    toString(AuthParams(ls, state, codeVerifier, codeChallengeMethod, usePKCE, prompt))

-----------------------------------------------------------------------------
(* Token exchange *)

\* getDefaultTokenExchangeParams that always has a client_secret key, empty
\* for a public client
getDefaultTokenExchangeParams_AlwaysSecret(ls, code) ==
    << <<"client_id", CLIENT_ID>>, <<"code", code>>,
       <<"code_verifier", tokenStore(ls).codeVerifier>>,
       <<"grant_type", "authorization_code">>,
       <<"redirect_uri", REDIRECT_URI>>,
       <<"client_secret",
         IF tokenStore(ls).flow = "confidential" THEN CLIENT_SECRET ELSE "">> >>

getDefaultTokenExchangeParams(ls, code) ==
    LET params == << <<"client_id", CLIENT_ID>>, <<"code", code>>,
                     <<"code_verifier", tokenStore(ls).codeVerifier>>,
                     <<"grant_type", "authorization_code">>,
                     <<"redirect_uri", REDIRECT_URI>> >>
    IN  IF tokenStore(ls).flow = "confidential"
        THEN Assign(params, "client_secret", CLIENT_SECRET)
        ELSE params

\* exchangeCodeForTokens that appends every entry, blank values included
exchangeCodeForTokensRequest_KeepsBlank(params) ==
    [op |-> "exchangeCodeForTokens",
     url |-> FAPI_URL \o "/oauth/token",
     method |-> "POST",
     headers |-> << <<"Content-Type", "application/x-www-form-urlencoded">> >>,
     body |-> toString(params)]

\* the fetch() call of exchangeCodeForTokens(params)
exchangeCodeForTokensRequest(params) ==
    LET urlParams == SelectSeq(params, LAMBDA e : trim(e[2]) # "")
    IN  [op |-> "exchangeCodeForTokens",
         url |-> FAPI_URL \o "/oauth/token",
         method |-> "POST",
         headers |-> << <<"Content-Type", "application/x-www-form-urlencoded">> >>,
         body |-> toString(urlParams)]

\* exchangeCodeForTokens that stores the fields of the body before it looks
\* at the status
exchangeCodeForTokensSettle_StoresFirst(ls, response) ==
    LET stored == tokenStoreSet(tokenStoreSet(tokenStoreSet(ls,
                        "accessToken", response.access_token),
                        "refreshToken", response.refresh_token),
                        "idToken", response.id_token)
    IN  IF response.status = "rejected"
        THEN [store |-> ls, threw |-> TRUE, message |-> "Failed to fetch"]
        ELSE IF response.parse = "invalid"
        THEN [store |-> ls, threw |-> TRUE,
              message |-> "Unexpected token < in JSON at position 0"]
        ELSE IF response.parse = "null" /\ response.status = "ok"
        THEN [store |-> ls, threw |-> TRUE,
              message |-> "Cannot read properties of null (reading 'access_token')"]
        ELSE IF response.status # "ok"
        THEN [store |-> stored, threw |-> TRUE,
              message |-> "Failed to exchange code for tokens"]
        ELSE [store |-> stored, threw |-> FALSE, message |-> ""]

\* exchangeCodeForTokens after its fetch() has settled with response:
\* the store it leaves, whether it throws, and the error message if it does
\* exchangeCodeForTokens that uses up the request it answers: on success the
\* stored state and code verifier are cleared
exchangeCodeForTokensSettle_ConsumesRequest(ls, response) ==
    IF response.status = "rejected"
    THEN [store |-> ls, threw |-> TRUE, message |-> "Failed to fetch"]
    ELSE IF response.status # "ok"
    THEN [store |-> ls, threw |-> TRUE,
          message |-> "Failed to exchange code for tokens"]
    ELSE IF response.parse = "invalid"
    THEN [store |-> ls, threw |-> TRUE,
          message |-> "Unexpected token < in JSON at position 0"]
    ELSE IF response.parse = "null"
    THEN [store |-> ls, threw |-> TRUE,
          message |-> "Cannot read properties of null (reading 'access_token')"]
    ELSE [store |-> tokenStoreSet(tokenStoreSet(tokenStoreSet(tokenStoreSet(
                        tokenStoreSet(ls,
                        "accessToken", response.access_token),
                        "refreshToken", response.refresh_token),
                        "idToken", response.id_token),
                        "state", ""), "codeVerifier", ""),
          threw |-> FALSE, message |-> ""]

exchangeCodeForTokensSettle(ls, response) ==
    IF response.status = "rejected"
    THEN [store |-> ls, threw |-> TRUE, message |-> "Failed to fetch"]
    ELSE IF response.status # "ok"
    THEN \* the Error thrown inside the try block is caught by its own catch
         [store |-> ls, threw |-> TRUE,
          message |-> "Failed to exchange code for tokens"]
    ELSE IF response.parse = "invalid"
    THEN [store |-> ls, threw |-> TRUE,
          message |-> "Unexpected token < in JSON at position 0"]
    ELSE IF response.parse = "null"
    THEN [store |-> ls, threw |-> TRUE,
          message |-> "Cannot read properties of null (reading 'access_token')"]
    ELSE [store |-> tokenStoreSet(tokenStoreSet(tokenStoreSet(ls,
                        "accessToken", response.access_token),
                        "refreshToken", response.refresh_token),
                        "idToken", response.id_token),
          threw |-> FALSE, message |-> ""]

\* refreshAccessToken without the test of the stored refresh token
refreshAccessTokenRequest_NoCheck(ls) ==
    LET params == << <<"client_id", CLIENT_ID>>,
                     <<"refresh_token", tokenStore(ls).refreshToken>>,
                     <<"grant_type", "refresh_token">> >>
        withSecret ==
            IF tokenStore(ls).flow = "confidential"
            THEN Append2(params, "client_secret", CLIENT_SECRET)
            ELSE params
    IN  [threw |-> FALSE,
         request |-> [op |-> "refreshAccessToken",
                      url |-> FAPI_URL \o "/oauth/token",
                      method |-> "POST",
                      headers |-> << <<"Content-Type",
                                       "application/x-www-form-urlencoded">> >>,
                      body |-> toString(withSecret)]]

\* refreshAccessToken that sends the client secret whatever the flow
refreshAccessTokenRequest_AlwaysSecret(ls) ==
    LET params == << <<"client_id", CLIENT_ID>>,
                     <<"refresh_token", tokenStore(ls).refreshToken>>,
                     <<"grant_type", "refresh_token">>,
                     <<"client_secret", CLIENT_SECRET>> >>
    IN  IF ~Truthy(tokenStore(ls).refreshToken)
        THEN [threw |-> TRUE, message |-> "No refresh token available"]
        ELSE [threw |-> FALSE,
              request |-> [op |-> "refreshAccessToken",
                           url |-> FAPI_URL \o "/oauth/token",
                           method |-> "POST",
                           headers |-> << <<"Content-Type",
                                            "application/x-www-form-urlencoded">> >>,
                           body |-> toString(params)]]

\* refreshAccessToken up to its fetch(): it throws before fetching when no
\* refresh token is stored
refreshAccessTokenRequest(ls) ==
    LET params == << <<"client_id", CLIENT_ID>>,
                     <<"refresh_token", tokenStore(ls).refreshToken>>,
                     <<"grant_type", "refresh_token">> >>
        withSecret ==
            IF tokenStore(ls).flow = "confidential"
            THEN Append2(params, "client_secret", CLIENT_SECRET)
            ELSE params
    IN  IF ~Truthy(tokenStore(ls).refreshToken)
        THEN [threw |-> TRUE, message |-> "No refresh token available"]
        ELSE [threw |-> FALSE,
              request |-> [op |-> "refreshAccessToken",
                           url |-> FAPI_URL \o "/oauth/token",
                           method |-> "POST",
                           headers |-> << <<"Content-Type",
                                            "application/x-www-form-urlencoded">> >>,
                           body |-> toString(withSecret)]]

\* refreshAccessToken after its fetch() has settled with response
refreshAccessTokenSettle(ls, response) ==
    IF response.status = "rejected"
    THEN [store |-> ls, threw |-> TRUE, message |-> "Failed to fetch"]
    ELSE IF response.status # "ok"
    THEN [store |-> ls, threw |-> TRUE, message |-> "Failed to refresh token"]
    ELSE IF response.parse = "invalid"
    THEN [store |-> ls, threw |-> TRUE,
          message |-> "Unexpected token < in JSON at position 0"]
    ELSE IF response.parse = "null"
    THEN [store |-> ls, threw |-> TRUE,
          message |-> "Cannot read properties of null (reading 'access_token')"]
    ELSE [store |-> tokenStoreSet(tokenStoreSet(tokenStoreSet(ls,
                        "accessToken", response.access_token),
                        "refreshToken", response.refresh_token),
                        "idToken", response.id_token),
          threw |-> FALSE, message |-> ""]

\* what the token endpoint may answer: a 2xx or non-2xx status with a JSON
\* object, the JSON value null or an unparseable body, or no answer at all
\* (fetch rejects); a field the JSON object does not have reads as undefined
TokenResponses ==
    {[status |-> "ok", parse |-> "object", access_token |-> "at1",
      refresh_token |-> "rt1", id_token |-> "id1"],
     [status |-> "ok", parse |-> "object", access_token |-> "at2",
      refresh_token |-> undefined, id_token |-> undefined],
     [status |-> "ok", parse |-> "invalid", access_token |-> undefined,
      refresh_token |-> undefined, id_token |-> undefined],
     [status |-> "ok", parse |-> "null", access_token |-> undefined,
      refresh_token |-> undefined, id_token |-> undefined],
     [status |-> "error", parse |-> "object", access_token |-> undefined,
      refresh_token |-> undefined, id_token |-> undefined],
     [status |-> "error", parse |-> "invalid", access_token |-> undefined,
      refresh_token |-> undefined, id_token |-> undefined],
     [status |-> "rejected", parse |-> "invalid", access_token |-> undefined,
      refresh_token |-> undefined, id_token |-> undefined]}

\* what a parsed body is to the page that shows it: null for the JSON value
\* null, and one value for every JSON object
ParsedBody(response) ==
    IF response.parse = "null" THEN null ELSE "[object Object]"

\* getUserInfo up to its fetch(): it throws before fetching when no access
\* token is stored; fetch() without a method is a GET without a body
getUserInfoRequest(ls) ==
    IF ~Truthy(tokenStore(ls).accessToken)
    THEN [threw |-> TRUE, message |-> "No access token available"]
    ELSE [threw |-> FALSE,
          request |-> [op |-> "getUserInfo",
                       url |-> FAPI_URL \o "/oauth/userinfo",
                       method |-> "GET",
                       headers |-> << <<"Authorization",
                                        "Bearer " \o tokenStore(ls).accessToken>> >>,
                       body |-> null]]

\* getUserInfo after its fetch() has settled with response; it writes nothing
getUserInfoSettle(response) ==
    IF response.status = "rejected"
    THEN [threw |-> TRUE, message |-> "Failed to fetch", value |-> null]
    ELSE IF response.status # "ok"
    THEN [threw |-> TRUE, message |-> "Failed to get user info", value |-> null]
    ELSE IF response.parse = "invalid"
    THEN [threw |-> TRUE, message |-> "Unexpected token < in JSON at position 0",
          value |-> null]
    ELSE [threw |-> FALSE, message |-> "", value |-> ParsedBody(response)]

\* the fetch() call of getClientCredentialsToken()
getClientCredentialsTokenRequest ==
    [op |-> "getClientCredentialsToken",
     url |-> FAPI_URL \o "/oauth/token",
     method |-> "POST",
     headers |-> << <<"Content-Type", "application/x-www-form-urlencoded">> >>,
     body |-> toString(<< <<"client_id", CLIENT_ID>>,
                          <<"client_secret", CLIENT_SECRET>>,
                          <<"grant_type", "client_credentials">>,
                          <<"scope", "email profile">> >>)]

\* getClientCredentialsToken that stores all three fields of the response, as
\* the code exchange does
getClientCredentialsTokenSettle_StoresAll(ls, response) ==
    IF response.status = "rejected"
    THEN [store |-> ls, threw |-> TRUE, message |-> "Failed to fetch"]
    ELSE IF response.status # "ok"
    THEN [store |-> ls, threw |-> TRUE,
          message |-> "Failed to get client credentials token"]
    ELSE IF response.parse = "invalid"
    THEN [store |-> ls, threw |-> TRUE,
          message |-> "Unexpected token < in JSON at position 0"]
    ELSE IF response.parse = "null"
    THEN [store |-> ls, threw |-> TRUE,
          message |-> "Cannot read properties of null (reading 'access_token')"]
    ELSE [store |-> tokenStoreSet(tokenStoreSet(tokenStoreSet(tokenStoreSet(ls,
                        "accessToken", response.access_token),
                        "refreshToken", response.refresh_token),
                        "idToken", response.id_token),
                        "flow", "confidential"),
          threw |-> FALSE, message |-> ""]

\* getClientCredentialsToken after its fetch() has settled with response
getClientCredentialsTokenSettle(ls, response) ==
    IF response.status = "rejected"
    THEN [store |-> ls, threw |-> TRUE, message |-> "Failed to fetch"]
    ELSE IF response.status # "ok"
    THEN [store |-> ls, threw |-> TRUE,
          message |-> "Failed to get client credentials token"]
    ELSE IF response.parse = "invalid"
    THEN [store |-> ls, threw |-> TRUE,
          message |-> "Unexpected token < in JSON at position 0"]
    ELSE IF response.parse = "null"
    THEN [store |-> ls, threw |-> TRUE,
          message |-> "Cannot read properties of null (reading 'access_token')"]
    ELSE [store |-> tokenStoreSet(tokenStoreSet(ls,
                        "accessToken", response.access_token),
                        "flow", "confidential"),
          threw |-> FALSE, message |-> ""]

-----------------------------------------------------------------------------
(* Client authentication of the token-info and revocation calls *)

ClientAuthMethods == {"client_secret_basic", "client_secret_post"}

\* btoa(CLIENT_ID + ":" + CLIENT_SECRET)
BasicCredentials == "Y2xpZW50XzE6czNjcmV0"

getClientAuthHeaders(clientAuthMethod) ==
    IF clientAuthMethod = "client_secret_basic"
    THEN << <<"Authorization", "Basic " \o BasicCredentials>> >>
    ELSE <<>>

getClientAuthParams(clientAuthMethod) ==
    IF clientAuthMethod = "client_secret_post"
    THEN << <<"client_id", CLIENT_ID>>, <<"client_secret", CLIENT_SECRET>> >>
    ELSE <<>>

-----------------------------------------------------------------------------
(* Component state *)

NoQuery == [code |-> null, state |-> null, error |-> null]

\* useState(tokenStore): the page holds the tokenStore object itself, whose
\* getters read localStorage, until setTokens({ ...tokenStore }) replaces it
\* by a copy of the values
LiveTokens ==
    [live |-> TRUE, accessToken |-> "", refreshToken |-> "", idToken |-> ""]

\* { ...tokenStore }
TokensCopy(ls) ==
    [live |-> FALSE, accessToken |-> tokenStore(ls).accessToken,
     refreshToken |-> tokenStore(ls).refreshToken,
     idToken |-> tokenStore(ls).idToken]

\* the page before it is rendered
HomeBlank ==
    [tokens |-> LiveTokens, userInfo |-> null, tokenInfo |-> null,
     loading |-> FALSE, error |-> null,
     state |-> "", stateRemoved |-> FALSE, codeVerifier |-> "",
     codeChallengeMethod |-> "S256", usePKCE |-> TRUE, prompt |-> "",
     selectedPrompts |-> {}]

CallbackBlank ==
    [error |-> null, loading |-> TRUE, showForm |-> FALSE, params |-> <<>>,
     defaultParams |-> <<>>, submitting |-> FALSE]

NoResult == [fn |-> "none", before |-> <<>>, args |-> <<>>, value |-> ""]

\* stateOp: the last state control used ("refresh", "remove", "edit");
\* newState: the value refreshState() generated, while no other control
\* was used and the session was not reset since;
\* logoutSince: whether the session was reset after that control was used;
\* codeVerifier: the verifier the last generateAuthUrl call was given with
\* PKCE active, null when there is none or the session was reset since;
\* flow: the flow the last generateAuthUrl call was given, "confidential" when
\* a client-credentials grant has succeeded since, "public" when there was no
\* call or the session was reset since
NoHistory ==
    [stateOp |-> "none", newState |-> null, logoutSince |-> FALSE,
     codeVerifier |-> null, flow |-> "public"]

\* tokens as the home page reads them
Tokens ==
    IF home.tokens.live THEN TokensCopy(localStorage) ELSE home.tokens

\* value.split(" ").filter((p) => p.trim()), as a Set
PromptSet(value) ==
    LET parts == split(value, " ")
    IN  {parts[i] : i \in {j \in DOMAIN parts : trim(parts[j]) # ""}}

\* HomePage's useState initialisers followed by its mount effect
HomeMounted(ls, verifier, newState) ==
    LET init == initializeState(ls, newState)
        p == tokenStore(init.store).prompt
    IN  [store |-> init.store,
         home |-> [tokens |-> LiveTokens, userInfo |-> null, tokenInfo |-> null,
                   loading |-> FALSE, error |-> null,
                   state |-> init.value,
                   stateRemoved |-> isStateRemoved(init.store),
                   codeVerifier |-> verifier,
                   codeChallengeMethod |-> "S256", usePKCE |-> TRUE,
                   prompt |-> p,
                   selectedPrompts |-> IF Truthy(p) THEN PromptSet(p) ELSE {}]]

\* the URL shown in the "Authorization URL" card
AuthUrlPreview ==
    generateAuthUrlPreview(localStorage, "public", home.state, home.codeVerifier,
                           home.codeChallengeMethod, home.usePKCE, home.prompt)

-----------------------------------------------------------------------------
(* Home page *)

\* prompts a user types into the custom prompt input
TypedPrompts == {"", "login consent"}

\* the browser loads "/" and HomePage mounts
LoadHome(verifier, newState) ==
    LET m == HomeMounted(localStorage, verifier, newState) IN
    /\ page \in {"blank", "home", "provider", "callback"}
    /\ localStorage' = m.store
    /\ home' = m.home
    /\ page' = "home"
    /\ location' = "/"
    /\ searchParams' = NoQuery
    /\ callback' = CallbackBlank
    /\ pending' = {}
    /\ fetched' = {}
    /\ UNCHANGED <<result, history>>

\* handlePublicClient ("public") and handleConfidentialClient ("confidential")
StartFlow(flow) ==
    LET r == generateAuthUrl(localStorage, flow, home.state, home.codeVerifier,
                             home.codeChallengeMethod, home.usePKCE, home.prompt)
    IN  /\ page = "home"
        /\ ~home.loading
        /\ localStorage' = r.store
        /\ location' = r.value
        /\ page' = "provider"
        /\ home' = HomeBlank
        /\ pending' = {}
        /\ fetched' = {}
        /\ history' = [history EXCEPT !.codeVerifier =
                          IF home.usePKCE /\ home.codeChallengeMethod # "omit"
                          THEN home.codeVerifier ELSE null,
                                      !.flow = flow]
        /\ UNCHANGED <<searchParams, callback, result>>

handlePublicClient == StartFlow("public")

handleConfidentialClient == StartFlow("confidential")

handleRefreshState(newState) ==
    LET r == refreshState(localStorage, newState) IN
    /\ page = "home"
    /\ localStorage' = r.store
    /\ home' = [home EXCEPT !.state = r.value, !.stateRemoved = FALSE]
    /\ history' = [history EXCEPT !.stateOp = "refresh", !.newState = r.value,
                                  !.logoutSince = FALSE]
    /\ UNCHANGED <<page, location, searchParams, callback, pending, fetched, result>>

handleRemoveState ==
    /\ page = "home"
    /\ ~home.stateRemoved
    /\ localStorage' = removeState(localStorage)
    /\ home' = [home EXCEPT !.state = "", !.stateRemoved = TRUE]
    /\ history' = [history EXCEPT !.stateOp = "remove", !.newState = null,
                                  !.logoutSince = FALSE]
    /\ UNCHANGED <<page, location, searchParams, callback, pending, fetched, result>>

\* handleStateChange without its `tokenStore.stateMode = "enabled"`
handleStateChangeWrites_KeepsMode(ls, value) == tokenStoreSet(ls, "state", value)

\* the two assignments handleStateChange makes to tokenStore
handleStateChangeWrites(ls, value) ==
    tokenStoreSet(tokenStoreSet(ls, "state", value), "stateMode", "enabled")

handleStateChange(value) ==
    /\ page = "home"
    /\ ~home.stateRemoved
    /\ localStorage' = handleStateChangeWrites(localStorage, value)
    /\ home' = [home EXCEPT !.state = value, !.stateRemoved = FALSE]
    /\ history' = [history EXCEPT !.stateOp = "edit", !.newState = null,
                                  !.logoutSince = FALSE]
    /\ UNCHANGED <<page, location, searchParams, callback, pending, fetched, result>>

handleGenerateCodeVerifier(verifier) ==
    /\ page = "home"
    /\ home.usePKCE
    /\ home.codeChallengeMethod # "omit"
    /\ home' = [home EXCEPT !.codeVerifier = verifier]
    /\ UNCHANGED <<localStorage, page, location, searchParams, callback,
                   pending, fetched, result, history>>

\* the Code Verifier input: onChange={(e) => setCodeVerifier(e.target.value)}
setCodeVerifier(value) ==
    /\ page = "home"
    /\ home.usePKCE
    /\ home.codeChallengeMethod # "omit"
    /\ home' = [home EXCEPT !.codeVerifier = value]
    /\ UNCHANGED <<localStorage, page, location, searchParams, callback,
                   pending, fetched, result, history>>

handleCodeChallengeMethodChange(method, verifier) ==
    /\ page = "home"
    /\ home.usePKCE
    /\ home' = [home EXCEPT !.codeChallengeMethod = method,
                            !.codeVerifier = IF method # "omit" THEN verifier ELSE @]
    /\ UNCHANGED <<localStorage, page, location, searchParams, callback,
                   pending, fetched, result, history>>

setUsePKCE(value) ==
    /\ page = "home"
    /\ home' = [home EXCEPT !.usePKCE = value]
    /\ UNCHANGED <<localStorage, page, location, searchParams, callback,
                   pending, fetched, result, history>>

\* the values of the four prompt buttons
PromptValues == {"none", "login", "consent", "select_account"}

\* the characters of the prompt values in the order of their UTF-16 code
\* units
CodeUnitOrder == "_abcdefghijklmnopqrstuvwxyz"

\* a < b on strings: the comparison Array.prototype.sort() uses by default
RECURSIVE Before(_, _)
Before(a, b) ==
    IF b = "" THEN FALSE
    ELSE IF a = "" THEN TRUE
    ELSE LET x == IndexOf(CodeUnitOrder, SubSeq(a, 1, 1), 1)
             y == IndexOf(CodeUnitOrder, SubSeq(b, 1, 1), 1)
         IN  IF x # y THEN x < y
             ELSE Before(SubSeq(a, 2, Len(a)), SubSeq(b, 2, Len(b)))

\* a sort that puts the largest value first
RECURSIVE sort_Descending(_)
sort_Descending(S) ==
    IF S = {} THEN <<>>
    ELSE LET last == CHOOSE x \in S : \A y \in S : x = y \/ Before(y, x)
         IN  <<last>> \o sort_Descending(S \ {last})

\* Array.from(set).sort()
RECURSIVE sort(_)
sort(S) ==
    IF S = {} THEN <<>>
    ELSE LET first == CHOOSE x \in S : \A y \in S : x = y \/ Before(x, y)
         IN  <<first>> \o sort(S \ {first})

\* Array.prototype.join(sep)
RECURSIVE join(_, _)
join(parts, sep) ==
    IF parts = <<>> THEN ""
    ELSE IF Len(parts) = 1 THEN parts[1]
    ELSE parts[1] \o sep \o join(Tail(parts), sep)

handlePromptToggle(promptValue) ==
    LET newSelectedPrompts ==
            IF promptValue \in home.selectedPrompts
            THEN home.selectedPrompts \ {promptValue}
            ELSE home.selectedPrompts \cup {promptValue}
        combinedPrompt == join(sort(newSelectedPrompts), " ")
    IN  /\ page = "home"
        /\ localStorage' = tokenStoreSet(localStorage, "prompt", combinedPrompt)
        /\ home' = [home EXCEPT !.selectedPrompts = newSelectedPrompts,
                                !.prompt = combinedPrompt]
        /\ UNCHANGED <<page, location, searchParams, callback, pending, fetched,
                       result, history>>

handlePromptChange(value) ==
    /\ page = "home"
    /\ localStorage' = tokenStoreSet(localStorage, "prompt", value)
    /\ home' = [home EXCEPT !.prompt = value,
                            !.selectedPrompts =
                                IF Truthy(value) THEN PromptSet(value) ELSE {}]
    /\ UNCHANGED <<page, location, searchParams, callback, pending, fetched,
                   result, history>>

\* handleRefreshToken up to the await of fetch()
handleRefreshToken ==
    LET r == refreshAccessTokenRequest(localStorage) IN
    /\ page = "home"
    /\ Truthy(Tokens.accessToken) \/ Truthy(Tokens.refreshToken)
    /\ ~home.loading
    /\ Truthy(Tokens.refreshToken)
    /\ IF r.threw
       THEN /\ home' = [home EXCEPT !.loading = FALSE, !.error = r.message]
            /\ UNCHANGED <<pending, fetched>>
       ELSE /\ home' = [home EXCEPT !.loading = TRUE, !.error = null]
            /\ pending' = pending \cup {r.request}
            /\ fetched' = fetched \cup {r.request}
    /\ UNCHANGED <<localStorage, page, location, searchParams, callback,
                   result, history>>

\* handleRefreshToken from the settling of fetch() to its finally block
RefreshSettled(response) ==
    \E request \in pending :
        LET r == refreshAccessTokenSettle(localStorage, response) IN
        /\ page = "home"
        /\ request.op = "refreshAccessToken"
        /\ pending' = pending \ {request}
        /\ localStorage' = r.store
        /\ home' = IF r.threw
                   THEN [home EXCEPT !.loading = FALSE, !.error = r.message]
                   ELSE [home EXCEPT !.loading = FALSE,
                                     !.tokens = TokensCopy(r.store)]
        /\ UNCHANGED <<page, location, searchParams, callback, fetched,
                       result, history>>

handleLogout ==
    /\ page = "home"
    /\ Truthy(Tokens.accessToken) \/ Truthy(Tokens.refreshToken)
    /\ ~home.loading
    /\ localStorage' = resetTokenStore(localStorage)
    /\ home' = [home EXCEPT !.tokens = TokensCopy(resetTokenStore(localStorage)),
                            !.userInfo = null, !.tokenInfo = null,
                            !.error = null, !.prompt = "",
                            !.selectedPrompts = {}]
    /\ history' = [history EXCEPT !.newState = null, !.logoutSince = TRUE,
                                  !.codeVerifier = null, !.flow = "public"]
    /\ UNCHANGED <<page, location, searchParams, callback, pending, fetched, result>>

-----------------------------------------------------------------------------
(* Home page: the handlers of the Token Operations card. Each handler is   *)
(* the function as it runs when it is invoked; the disabled attribute of   *)
(* its button is not part of it. result records the last invocation: the   *)
(* store it found, its arguments and the state of its promise.             *)

\* the token a handler picks from the page's tokens
SelectedToken(tokens, tokenType) ==
    IF tokenType = "access" THEN tokens.accessToken ELSE tokens.refreshToken

\* handleGetTokenInfo without the test of the selected token
handleGetTokenInfoRequest_NoCheck(tokens, tokenType, clientAuthMethod) ==
    [threw |-> FALSE,
     request |-> [op |-> "handleGetTokenInfo", tokenType |-> tokenType,
                  url |-> FAPI_URL \o "/oauth/token_info",
                  method |-> "POST",
                  headers |-> << <<"Content-Type",
                                   "application/x-www-form-urlencoded">> >>
                              \o getClientAuthHeaders(clientAuthMethod),
                  body |-> toString(<< <<"token", SelectedToken(tokens, tokenType)>> >>
                                    \o getClientAuthParams(clientAuthMethod))]]

\* handleGetTokenInfo up to its fetch(), or to the throw before it
handleGetTokenInfoRequest(tokens, tokenType, clientAuthMethod) ==
    LET token == SelectedToken(tokens, tokenType) IN
    IF ~Truthy(token)
    THEN [threw |-> TRUE, message |-> "No " \o tokenType \o " token available"]
    ELSE [threw |-> FALSE,
          request |-> [op |-> "handleGetTokenInfo", tokenType |-> tokenType,
                       url |-> FAPI_URL \o "/oauth/token_info",
                       method |-> "POST",
                       headers |-> << <<"Content-Type",
                                        "application/x-www-form-urlencoded">> >>
                                   \o getClientAuthHeaders(clientAuthMethod),
                       body |-> toString(<< <<"token", token>> >>
                                         \o getClientAuthParams(clientAuthMethod))]]

\* handleGetTokenInfo after its fetch() has settled with response
handleGetTokenInfoSettle(tokenType, response) ==
    IF response.status = "rejected"
    THEN [threw |-> TRUE, message |-> "Failed to fetch", value |-> null]
    ELSE IF response.status # "ok"
    THEN [threw |-> TRUE,
          message |-> "Failed to get " \o tokenType \o " token info",
          value |-> null]
    ELSE IF response.parse = "invalid"
    THEN [threw |-> TRUE, message |-> "Unexpected token < in JSON at position 0",
          value |-> null]
    ELSE [threw |-> FALSE, message |-> "", value |-> ParsedBody(response)]

\* handleRevokeToken that writes the client credentials into the body itself,
\* next to what the client authentication adds
handleRevokeTokenRequest_PostsCredentials(tokens, tokenType, clientAuthMethod) ==
    LET token == SelectedToken(tokens, tokenType) IN
    IF ~Truthy(token)
    THEN [threw |-> TRUE, message |-> "No " \o tokenType \o " token available"]
    ELSE [threw |-> FALSE,
          request |-> [op |-> "handleRevokeToken", tokenType |-> tokenType,
                       url |-> FAPI_URL \o "/oauth/token/revoke",
                       method |-> "POST",
                       headers |-> << <<"Content-Type",
                                        "application/x-www-form-urlencoded">> >>
                                   \o getClientAuthHeaders(clientAuthMethod),
                       body |-> toString(<< <<"token", token>>,
                                            <<"token_type_hint", tokenType \o "_token">>,
                                            <<"client_id", CLIENT_ID>>,
                                            <<"client_secret", CLIENT_SECRET>> >>)]]

\* handleRevokeToken up to its fetch(), or to the throw before it
handleRevokeTokenRequest(tokens, tokenType, clientAuthMethod) ==
    LET token == SelectedToken(tokens, tokenType) IN
    IF ~Truthy(token)
    THEN [threw |-> TRUE, message |-> "No " \o tokenType \o " token available"]
    ELSE [threw |-> FALSE,
          request |-> [op |-> "handleRevokeToken", tokenType |-> tokenType,
                       url |-> FAPI_URL \o "/oauth/token/revoke",
                       method |-> "POST",
                       headers |-> << <<"Content-Type",
                                        "application/x-www-form-urlencoded">> >>
                                   \o getClientAuthHeaders(clientAuthMethod),
                       body |-> toString(<< <<"token", token>>,
                                            <<"token_type_hint", tokenType \o "_token">> >>
                                         \o getClientAuthParams(clientAuthMethod))]]

\* handleRevokeToken that clears both tokens once the provider has confirmed
handleRevokeTokenSettle_ClearsBoth(ls, tokenType, response) ==
    IF response.status = "rejected"
    THEN [store |-> ls, threw |-> TRUE, message |-> "Failed to fetch"]
    ELSE IF response.status # "ok"
    THEN [store |-> ls, threw |-> TRUE,
          message |-> "Failed to revoke " \o tokenType \o " token"]
    ELSE [store |-> tokenStoreSet(tokenStoreSet(ls, "accessToken", ""),
                                  "refreshToken", ""),
          threw |-> FALSE, message |-> ""]

\* handleRevokeToken after its fetch() has settled with response; the body of
\* the response is not read
handleRevokeTokenSettle(ls, tokenType, response) ==
    IF response.status = "rejected"
    THEN [store |-> ls, threw |-> TRUE, message |-> "Failed to fetch"]
    ELSE IF response.status # "ok"
    THEN [store |-> ls, threw |-> TRUE,
          message |-> "Failed to revoke " \o tokenType \o " token"]
    ELSE [store |-> tokenStoreSet(ls, IF tokenType = "access" THEN "accessToken"
                                      ELSE "refreshToken", ""),
          threw |-> FALSE, message |-> ""]

TokenTypes == {"access", "refresh"}

\* a handler up to its await of fetch(), or to its catch and finally blocks
\* when it throws before
HandlerFetch(fn, args, r) ==
    /\ page = "home"
    /\ home' = IF r.threw
               THEN [home EXCEPT !.loading = FALSE, !.error = r.message]
               ELSE [home EXCEPT !.loading = TRUE, !.error = null]
    /\ pending' = IF r.threw THEN pending ELSE pending \cup {r.request}
    /\ fetched' = IF r.threw THEN fetched ELSE fetched \cup {r.request}
    /\ result' = [fn |-> fn, before |-> localStorage, args |-> args,
                  value |-> [state |-> IF r.threw THEN "rejected" ELSE "pending",
                             message |-> IF r.threw THEN r.message ELSE ""]]
    /\ UNCHANGED <<localStorage, page, location, searchParams, callback, history>>

\* what a handler's settling leaves in result
Settled(fn, args, r) ==
    [fn |-> fn, before |-> localStorage, args |-> args,
     value |-> [state |-> IF r.threw THEN "rejected" ELSE "fulfilled",
                message |-> r.message]]

handleGetUserInfo ==
    HandlerFetch("handleGetUserInfo", <<>>, getUserInfoRequest(localStorage))

\* handleGetUserInfo from the settling of fetch() to its finally block
UserInfoSettled(response) ==
    \E request \in pending :
        LET r == getUserInfoSettle(response) IN
        /\ page = "home"
        /\ request.op = "getUserInfo"
        /\ pending' = pending \ {request}
        /\ home' = IF r.threw
                   THEN [home EXCEPT !.loading = FALSE, !.error = r.message]
                   ELSE [home EXCEPT !.loading = FALSE, !.userInfo = r.value]
        /\ result' = Settled("handleGetUserInfo", [response |-> response], r)
        /\ UNCHANGED <<localStorage, page, location, searchParams, callback,
                       fetched, history>>

handleGetTokenInfo(tokenType, clientAuthMethod) ==
    HandlerFetch("handleGetTokenInfo",
                 [tokenType |-> tokenType, clientAuthMethod |-> clientAuthMethod],
                 handleGetTokenInfoRequest(Tokens, tokenType, clientAuthMethod))

\* handleGetTokenInfo from the settling of fetch() to its finally block
TokenInfoSettled(response) ==
    \E request \in pending :
        /\ page = "home"
        /\ request.op = "handleGetTokenInfo"
        /\ LET r == handleGetTokenInfoSettle(request.tokenType, response) IN
           /\ pending' = pending \ {request}
           /\ home' = IF r.threw
                      THEN [home EXCEPT !.loading = FALSE, !.error = r.message]
                      ELSE [home EXCEPT !.loading = FALSE, !.tokenInfo = r.value]
           /\ result' = Settled("handleGetTokenInfo",
                                [tokenType |-> request.tokenType,
                                 response |-> response], r)
        /\ UNCHANGED <<localStorage, page, location, searchParams, callback,
                       fetched, history>>

handleRevokeToken(tokenType, clientAuthMethod) ==
    HandlerFetch("handleRevokeToken",
                 [tokenType |-> tokenType, clientAuthMethod |-> clientAuthMethod],
                 handleRevokeTokenRequest(Tokens, tokenType, clientAuthMethod))

\* handleRevokeToken whose setLoading(false) is at the end of the try block
\* and not in a finally block
RevokeSettled_NoFinally(response) ==
    \E request \in pending :
        /\ page = "home"
        /\ request.op = "handleRevokeToken"
        /\ LET r == handleRevokeTokenSettle(localStorage, request.tokenType, response) IN
           /\ pending' = pending \ {request}
           /\ localStorage' = r.store
           /\ home' = IF r.threw
                      THEN [home EXCEPT !.error = r.message]
                      ELSE [home EXCEPT !.loading = FALSE,
                                        !.tokens = TokensCopy(r.store)]
           /\ result' = Settled("handleRevokeToken",
                                [tokenType |-> request.tokenType,
                                 response |-> response], r)
        /\ UNCHANGED <<page, location, searchParams, callback, fetched, history>>

\* handleRevokeToken from the settling of fetch() to its finally block
RevokeSettled(response) ==
    \E request \in pending :
        /\ page = "home"
        /\ request.op = "handleRevokeToken"
        /\ LET r == handleRevokeTokenSettle(localStorage, request.tokenType, response) IN
           /\ pending' = pending \ {request}
           /\ localStorage' = r.store
           /\ home' = IF r.threw
                      THEN [home EXCEPT !.loading = FALSE, !.error = r.message]
                      ELSE [home EXCEPT !.loading = FALSE,
                                        !.tokens = TokensCopy(r.store)]
           /\ result' = Settled("handleRevokeToken",
                                [tokenType |-> request.tokenType,
                                 response |-> response], r)
        /\ UNCHANGED <<page, location, searchParams, callback, fetched, history>>

-----------------------------------------------------------------------------
(* Callback page *)

\* query parameters a redirect to /callback may carry
Codes == {null, "", "SplxlOBeZQQYbYS6WxSbIA"}

Errors == {null, "", "access_denied"}

CallbackStates == {null} \cup States

Queries == [code : Codes, state : CallbackStates, error : Errors]

\* CallbackEffect comparing (state || "") with the stored state
CallbackEffect_NullAsEmpty(ls, query) ==
    LET code == query.code
        state == query.state
        error == query.error
        failed(message) ==
            [CallbackBlank EXCEPT !.error = message, !.loading = FALSE]
    IN  IF Truthy(error) THEN failed("OAuth error: " \o error)
        ELSE IF ~Truthy(code) THEN failed("Missing code")
        ELSE IF isStateRemoved(ls) /\ state # null
        THEN failed("Unexpected state parameter received. State was removed but received: "
                    \o state)
        ELSE IF ~isStateRemoved(ls) /\ OrElse(state, "") # tokenStore(ls).state
        THEN failed("State parameter mismatch. Received: " \o StringOf(state)
                    \o ", Expected: " \o tokenStore(ls).state)
        ELSE [CallbackBlank EXCEPT
                 !.defaultParams = getDefaultTokenExchangeParams(ls, code),
                 !.params = getDefaultTokenExchangeParams(ls, code),
                 !.loading = FALSE, !.showForm = TRUE]

\* CallbackEffect testing `if (state)` in place of `if (state !== null)`
CallbackEffect_TruthyState(ls, query) ==
    LET code == query.code
        state == query.state
        error == query.error
        failed(message) ==
            [CallbackBlank EXCEPT !.error = message, !.loading = FALSE]
    IN  IF Truthy(error) THEN failed("OAuth error: " \o error)
        ELSE IF ~Truthy(code) THEN failed("Missing code")
        ELSE IF isStateRemoved(ls) /\ Truthy(state)
        THEN failed("Unexpected state parameter received. State was removed but received: "
                    \o state)
        ELSE IF ~isStateRemoved(ls) /\ state # tokenStore(ls).state
        THEN failed("State parameter mismatch. Received: " \o StringOf(state)
                    \o ", Expected: " \o tokenStore(ls).state)
        ELSE [CallbackBlank EXCEPT
                 !.defaultParams = getDefaultTokenExchangeParams(ls, code),
                 !.params = getDefaultTokenExchangeParams(ls, code),
                 !.loading = FALSE, !.showForm = TRUE]

\* CallbackEffect testing the code before the error
CallbackEffect_CodeFirst(ls, query) ==
    LET code == query.code
        state == query.state
        error == query.error
        failed(message) ==
            [CallbackBlank EXCEPT !.error = message, !.loading = FALSE]
    IN  IF ~Truthy(code) THEN failed("Missing code")
        ELSE IF Truthy(error) THEN failed("OAuth error: " \o error)
        ELSE IF isStateRemoved(ls) /\ state # null
        THEN failed("Unexpected state parameter received. State was removed but received: "
                    \o state)
        ELSE IF ~isStateRemoved(ls) /\ state # tokenStore(ls).state
        THEN failed("State parameter mismatch. Received: " \o StringOf(state)
                    \o ", Expected: " \o tokenStore(ls).state)
        ELSE [CallbackBlank EXCEPT
                 !.defaultParams = getDefaultTokenExchangeParams(ls, code),
                 !.params = getDefaultTokenExchangeParams(ls, code),
                 !.loading = FALSE, !.showForm = TRUE]

\* the effect of Callback, run once when the page mounts: the component
\* state it leaves
CallbackEffect(ls, query) ==
    LET code == query.code
        state == query.state
        error == query.error
        failed(message) ==
            [CallbackBlank EXCEPT !.error = message, !.loading = FALSE]
    IN  IF Truthy(error) THEN failed("OAuth error: " \o error)
        ELSE IF ~Truthy(code) THEN failed("Missing code")
        ELSE IF isStateRemoved(ls) /\ state # null
        THEN failed("Unexpected state parameter received. State was removed but received: "
                    \o state)
        ELSE IF ~isStateRemoved(ls) /\ state # tokenStore(ls).state
        THEN failed("State parameter mismatch. Received: " \o StringOf(state)
                    \o ", Expected: " \o tokenStore(ls).state)
        ELSE [CallbackBlank EXCEPT
                 !.defaultParams = getDefaultTokenExchangeParams(ls, code),
                 !.params = getDefaultTokenExchangeParams(ls, code),
                 !.loading = FALSE, !.showForm = TRUE]

\* the browser is redirected to /callback and Callback mounts
LoadCallback(query) ==
    /\ page \in {"blank", "home", "provider", "callback"}
    /\ page' = "callback"
    /\ location' = "/callback"
    /\ searchParams' = query
    /\ callback' = CallbackEffect(localStorage, query)
    /\ home' = HomeBlank
    /\ pending' = {}
    /\ fetched' = {}
    /\ UNCHANGED <<localStorage, result, history>>

\* a form rendered as soon as the page has stopped loading, with or without
\* an error
FormShown_WithoutValidation ==
    /\ page = "callback"
    /\ ~callback.loading

\* the form is rendered only when there is no error and showForm is set
FormShown ==
    /\ page = "callback"
    /\ ~callback.loading
    /\ ~Truthy(callback.error)
    /\ callback.showForm

\* the key handleAddParam makes from the clock: `custom_param_${Date.now()}`
CustomKey == "custom_param_1700000000000"

\* values typed into a value input: a blank one, and one that needs encoding
TypedValues == {" ", "a b&c"}

\* keys typed into a key input: the key of another entry, a new key, and the
\* key an entry had before it was renamed
TypedKeys == {"code", "scope", "grant_type"}

\* the entries whose value input, key input and remove button are used
ChangedKeys == {"code_verifier", CustomKey}

RenamedKeys == {"grant_type", "scope"}

RemovedKeys == {"redirect_uri", CustomKey}

\* setParams(...) by a handler of the form
EditParams(newParams) ==
    /\ FormShown
    /\ callback' = [callback EXCEPT !.params = newParams]
    /\ UNCHANGED <<localStorage, page, location, searchParams, home, pending,
                   fetched, result, history>>

handleParamChange(key, value) ==
    /\ HasKey(callback.params, key)
    /\ EditParams(Assign(callback.params, key, value))

handleKeyChange(oldKey, newKey) ==
    /\ HasKey(callback.params, oldKey)
    /\ oldKey # newKey
    /\ EditParams(Assign(Delete(callback.params, oldKey), newKey,
                         Get(callback.params, oldKey)))

handleAddParam(newKey) ==
    EditParams(Assign(callback.params, newKey, ""))

handleRemoveParam(key) ==
    /\ HasKey(callback.params, key)
    /\ EditParams(Delete(callback.params, key))

\* hasChanges that compares the entries in the order they have
hasChanges_InOrder == callback.params # callback.defaultParams

\* whether params and defaultParams differ in their keys or values
hasChanges ==
    \/ Len(callback.params) # Len(callback.defaultParams)
    \/ {callback.params[i] : i \in DOMAIN callback.params}
          # {callback.defaultParams[i] : i \in DOMAIN callback.defaultParams}

handleRevert ==
    /\ hasChanges
    /\ ~callback.submitting
    /\ EditParams(callback.defaultParams)

\* handleSubmit up to the await of fetch()
handleSubmit ==
    LET request == exchangeCodeForTokensRequest(callback.params) IN
    /\ FormShown
    /\ ~callback.submitting
    /\ callback' = [callback EXCEPT !.submitting = TRUE]
    /\ pending' = pending \cup {request}
    /\ fetched' = fetched \cup {request}
    /\ UNCHANGED <<localStorage, page, location, searchParams, home, result, history>>

\* handleSubmit from the settling of fetch() to its finally block; on success
\* router.push("/") shows the home page
ExchangeSettled(response, verifier, newState) ==
    \E request \in pending :
        LET r == exchangeCodeForTokensSettle(localStorage, response)
            m == HomeMounted(r.store, verifier, newState)
        IN  /\ page = "callback"
            /\ request.op = "exchangeCodeForTokens"
            /\ pending' = pending \ {request}
            /\ IF r.threw
               THEN /\ localStorage' = r.store
                    /\ callback' = [callback EXCEPT !.error = r.message,
                                                    !.submitting = FALSE]
                    /\ UNCHANGED <<page, location, searchParams, home>>
               ELSE /\ localStorage' = m.store
                    /\ home' = m.home
                    /\ page' = "home"
                    /\ location' = "/"
                    /\ searchParams' = NoQuery
                    /\ callback' = CallbackBlank
            /\ UNCHANGED <<fetched, result, history>>

-----------------------------------------------------------------------------
(* The application: one browser tab on a fresh localStorage *)

Methods == {"S256", "plain", "omit"}

Init ==
    /\ localStorage = [k \in StorageKeys |-> null]
    /\ page = "blank"
    /\ location = ""
    /\ searchParams = NoQuery
    /\ home = HomeBlank
    /\ callback = CallbackBlank
    /\ pending = {}
    /\ fetched = {}
    /\ result = NoResult
    /\ history = NoHistory

Navigate ==
    \/ \E v \in GeneratedVerifiers, n \in GeneratedStates : LoadHome(v, n)
    \/ \E query \in Queries : LoadCallback(query)

StartAuthorization ==
    \/ handlePublicClient
    \/ handleConfidentialClient

StateControls ==
    \/ \E n \in GeneratedStates : handleRefreshState(n)
    \/ handleRemoveState
    \/ \E value \in TypedStates : handleStateChange(value)

PKCEControls ==
    \/ \E v \in GeneratedVerifiers : handleGenerateCodeVerifier(v)
    \/ \E value \in TypedVerifiers : setCodeVerifier(value)
    \/ \E m \in Methods, v \in GeneratedVerifiers : handleCodeChallengeMethodChange(m, v)
    \/ \E b \in BOOLEAN : setUsePKCE(b)
    \/ \E value \in TypedPrompts : handlePromptChange(value)

Exchange ==
    \/ handleSubmit
    \/ \E response \in TokenResponses, v \in GeneratedVerifiers, n \in GeneratedStates :
          ExchangeSettled(response, v, n)

Refresh ==
    \/ handleRefreshToken
    \/ \E response \in TokenResponses : RefreshSettled(response)

\* The flow driven through the state controls; the PKCE and prompt controls
\* stay as the page sets them when it mounts.
Next ==
    \/ Navigate
    \/ StartAuthorization
    \/ StateControls
    \/ Exchange
    \/ Refresh
    \/ handleLogout

Spec == Init /\ [][Next]_vars

\* The flow driven through the PKCE and prompt controls; the state stays as
\* the page initialises it when it mounts.
NextPKCE ==
    \/ Navigate
    \/ StartAuthorization
    \/ PKCEControls
    \/ Exchange
    \/ handleLogout

SpecPKCE == Init /\ [][NextPKCE]_vars

\* The flow on a home page whose prompt is set with the four prompt buttons
NextPrompt ==
    \/ \E v \in GeneratedVerifiers, n \in GeneratedStates : LoadHome(v, n)
    \/ \E promptValue \in PromptValues : handlePromptToggle(promptValue)
    \/ StartAuthorization

SpecPrompt == Init /\ [][NextPrompt]_vars

-----------------------------------------------------------------------------
(* The library: one call of an exported function of src/lib/oauth.ts, on a *)
(* store and with arguments drawn from bounded sets                        *)

LibStores ==
    {[k \in StorageKeys |->
        CASE k = "oauth_state" -> s
          [] k = "oauth_state_mode" -> m
          [] k = "oauth_code_verifier" -> v
          [] k = "oauth_flow" -> f
          [] OTHER -> null] :
     s \in {null, "abc"}, m \in {null, "enabled", "removed"},
     v \in {null, "dBjftJeZ4CVP-mB92K27uhbUJU1p1r_wW1gFWFOEjXk"},
     f \in {null, "public", "confidential"}}

Flows == {"public", "confidential"}

\* prompt arguments: blank ones, a list of values, and one that would add a
\* state key if it were written into the URL as it is
PromptArgs == {"", " ", "login consent", "x&state=y"}

AuthArgs ==
    [flow : Flows, state : TypedStates, codeVerifier : Verifiers,
     codeChallengeMethod : Methods, usePKCE : BOOLEAN, prompt : PromptArgs]

LibInit ==
    /\ localStorage \in LibStores
    /\ page = "lib"
    /\ location = ""
    /\ searchParams = NoQuery
    /\ home = HomeBlank
    /\ callback = CallbackBlank
    /\ pending = {}
    /\ fetched = {}
    /\ result = NoResult
    /\ history = NoHistory

LibCall(fn, args, store, value) ==
    /\ page = "lib"
    /\ result.fn = "none"
    /\ result' = [fn |-> fn, before |-> localStorage, args |-> args, value |-> value]
    /\ localStorage' = store
    /\ UNCHANGED <<page, location, searchParams, home, callback, pending,
                   fetched, history>>

CallGenerateAuthUrl(a) ==
    LET r == generateAuthUrl(localStorage, a.flow, a.state, a.codeVerifier,
                             a.codeChallengeMethod, a.usePKCE, a.prompt)
    IN  LibCall("generateAuthUrl", a, r.store, r.value)

CallGenerateAuthUrlPreview(a) ==
    LibCall("generateAuthUrlPreview", a, localStorage,
            generateAuthUrlPreview(localStorage, a.flow, a.state, a.codeVerifier,
                                   a.codeChallengeMethod, a.usePKCE, a.prompt))

CallGetDefaultTokenExchangeParams(code) ==
    LibCall("getDefaultTokenExchangeParams", code, localStorage,
            getDefaultTokenExchangeParams(localStorage, code))

\* the store writes of the home page's handleStateChange(value), on any store
CallHandleStateChange(value) ==
    LibCall("handleStateChange", value,
            handleStateChangeWrites(localStorage, value), value)

LibNext ==
    \/ \E value \in TypedStates : CallHandleStateChange(value)
    \/ \E a \in AuthArgs : CallGenerateAuthUrl(a)
    \/ \E a \in AuthArgs : CallGenerateAuthUrlPreview(a)
    \/ \E code \in Codes \ {null} : CallGetDefaultTokenExchangeParams(code)

SpecLib == LibInit /\ [][LibNext]_vars

-----------------------------------------------------------------------------
(* The library over a session: a caller starts from an empty localStorage  *)
(* and calls the exported functions of src/lib/oauth.ts one after another, *)
(* awaiting each asynchronous call before the next. result is the last     *)
(* call: the store it found, and in value the state of its promise;        *)
(* fetched holds the request that call has sent.                           *)

SessionCode == "SplxlOBeZQQYbYS6WxSbIA"

SessionVerifier == "dBjftJeZ4CVP-mB92K27uhbUJU1p1r_wW1gFWFOEjXk"

SessionAuthArgs ==
    [flow : Flows, state : {"abc"}, codeVerifier : {SessionVerifier},
     codeChallengeMethod : {"S256"}, usePKCE : BOOLEAN, prompt : {""}]

SessionInit ==
    /\ localStorage = [k \in StorageKeys |-> null]
    /\ page = "lib"
    /\ location = ""
    /\ searchParams = NoQuery
    /\ home = HomeBlank
    /\ callback = CallbackBlank
    /\ pending = {}
    /\ fetched = {}
    /\ result = NoResult
    /\ history = NoHistory

\* a synchronous call
SessionCall(fn, args, store, value) ==
    /\ page = "lib"
    /\ pending = {}
    /\ result' = [fn |-> fn, before |-> localStorage, args |-> args, value |-> value]
    /\ localStorage' = store
    /\ fetched' = {}
    /\ UNCHANGED <<page, location, searchParams, home, callback, pending>>

\* an asynchronous call up to its fetch(), or to the throw before it
SessionFetch(fn, r) ==
    /\ page = "lib"
    /\ pending = {}
    /\ result' = [fn |-> fn, before |-> localStorage, args |-> <<>>,
                  value |-> [state |-> IF r.threw THEN "rejected" ELSE "pending",
                             message |-> IF r.threw THEN r.message ELSE ""]]
    /\ pending' = IF r.threw THEN {} ELSE {r.request}
    /\ fetched' = IF r.threw THEN {} ELSE {r.request}
    /\ UNCHANGED <<localStorage, page, location, searchParams, home, callback,
                   history>>

\* an asynchronous call from the settling of its fetch() with response
SessionSettle(fn, response, r) ==
    /\ page = "lib"
    /\ \E request \in pending : request.op = fn
    /\ pending' = {}
    /\ result' = [fn |-> fn, before |-> localStorage, args |-> response,
                  value |-> [state |-> IF r.threw THEN "rejected" ELSE "fulfilled",
                             message |-> r.message]]
    /\ UNCHANGED <<page, location, searchParams, home, callback, fetched>>

SessionGenerateAuthUrl(a) ==
    LET r == generateAuthUrl(localStorage, a.flow, a.state, a.codeVerifier,
                             a.codeChallengeMethod, a.usePKCE, a.prompt)
    IN  /\ SessionCall("generateAuthUrl", a, r.store, r.value)
        /\ history' = [history EXCEPT !.flow = a.flow]

SessionInitializeState(newState) ==
    LET r == initializeState(localStorage, newState) IN
    /\ SessionCall("initializeState", newState, r.store, r.value)
    /\ UNCHANGED history

SessionRemoveState ==
    /\ SessionCall("removeState", <<>>, removeState(localStorage), "")
    /\ UNCHANGED history

SessionResetTokenStore ==
    /\ SessionCall("resetTokenStore", <<>>, resetTokenStore(localStorage), "")
    /\ history' = [history EXCEPT !.flow = "public"]

\* exchangeCodeForTokens(getDefaultTokenExchangeParams(code))
SessionExchangeCodeForTokens ==
    SessionFetch("exchangeCodeForTokens",
                 [threw |-> FALSE,
                  request |-> exchangeCodeForTokensRequest(
                      getDefaultTokenExchangeParams(localStorage, SessionCode))])

SessionExchangeSettled(response) ==
    LET r == exchangeCodeForTokensSettle(localStorage, response) IN
    /\ SessionSettle("exchangeCodeForTokens", response, r)
    /\ localStorage' = r.store
    /\ UNCHANGED history

SessionRefreshAccessToken ==
    SessionFetch("refreshAccessToken", refreshAccessTokenRequest(localStorage))

SessionRefreshSettled(response) ==
    LET r == refreshAccessTokenSettle(localStorage, response) IN
    /\ SessionSettle("refreshAccessToken", response, r)
    /\ localStorage' = r.store
    /\ UNCHANGED history

SessionGetUserInfo ==
    SessionFetch("getUserInfo", getUserInfoRequest(localStorage))

SessionUserInfoSettled(response) ==
    /\ SessionSettle("getUserInfo", response, getUserInfoSettle(response))
    /\ UNCHANGED <<localStorage, history>>

SessionGetClientCredentialsToken ==
    SessionFetch("getClientCredentialsToken",
                 [threw |-> FALSE, request |-> getClientCredentialsTokenRequest])

SessionClientCredentialsSettled(response) ==
    LET r == getClientCredentialsTokenSettle(localStorage, response) IN
    /\ SessionSettle("getClientCredentialsToken", response, r)
    /\ localStorage' = r.store
    /\ history' = [history EXCEPT !.flow = IF r.threw THEN @ ELSE "confidential"]

SessionGetDefaultTokenExchangeParams ==
    /\ SessionCall("getDefaultTokenExchangeParams", SessionCode, localStorage,
                   getDefaultTokenExchangeParams(localStorage, SessionCode))
    /\ UNCHANGED history

\* the queries a redirect back carries: the state that was sent, another
\* one, or none
SessionQueries ==
    [code : {SessionCode}, state : {null, "abc", "a&state=b"}, error : {null}]

\* the validation the callback page runs when it mounts
SessionCallbackEffect(query) ==
    /\ SessionCall("Callback.useEffect", query, localStorage,
                   CallbackEffect(localStorage, query))
    /\ UNCHANGED history

\* the home page's handleGetTokenInfo, on the tokens of the store
SessionGetTokenInfo(tokenType, clientAuthMethod) ==
    SessionFetch("handleGetTokenInfo",
                 handleGetTokenInfoRequest(TokensCopy(localStorage), tokenType,
                                           clientAuthMethod))

SessionTokenInfoSettled(response) ==
    /\ \E request \in pending :
          SessionSettle("handleGetTokenInfo", response,
                        handleGetTokenInfoSettle(request.tokenType, response))
    /\ UNCHANGED <<localStorage, history>>

SessionNext ==
    \/ \E a \in SessionAuthArgs : SessionGenerateAuthUrl(a)
    \/ \E n \in GeneratedStates : SessionInitializeState(n)
    \/ SessionRemoveState
    \/ SessionResetTokenStore
    \/ SessionExchangeCodeForTokens
    \/ \E response \in TokenResponses : SessionExchangeSettled(response)
    \/ SessionRefreshAccessToken
    \/ \E response \in TokenResponses : SessionRefreshSettled(response)
    \/ SessionGetUserInfo
    \/ \E response \in TokenResponses : SessionUserInfoSettled(response)
    \/ SessionGetClientCredentialsToken
    \/ \E response \in TokenResponses : SessionClientCredentialsSettled(response)
    \/ SessionGetDefaultTokenExchangeParams
    \/ \E query \in SessionQueries : SessionCallbackEffect(query)
    \/ \E tokenType \in TokenTypes, method \in ClientAuthMethods :
          SessionGetTokenInfo(tokenType, method)
    \/ \E response \in TokenResponses : SessionTokenInfoSettled(response)

SpecSession == SessionInit /\ [][SessionNext]_vars

-----------------------------------------------------------------------------
(* The Token Operations card: one invocation of a handler of the mounted   *)
(* home page, on a session drawn from the values the token fields take     *)
(* (never written, cleared by a revocation, written by a token response    *)
(* with or without the field)                                              *)

OpStores ==
    {[k \in StorageKeys |->
        CASE k = "oauth_access_token" -> a
          [] k = "oauth_refresh_token" -> r
          [] k = "oauth_id_token" -> IF a = "at1" THEN "id1" ELSE null
          [] k = "oauth_flow" -> f
          [] OTHER -> null] :
     a \in {null, "", "at1"}, r \in {null, "", "rt1", "undefined"},
     f \in {null, "confidential"}}

OpsInit ==
    /\ \E ls \in OpStores, n \in GeneratedStates, live \in BOOLEAN :
          LET m == HomeMounted(ls, SessionVerifier, n) IN
          /\ localStorage = m.store
          /\ home = [m.home EXCEPT !.tokens = IF live THEN LiveTokens
                                               ELSE TokensCopy(m.store)]
    /\ page = "home"
    /\ location = "/"
    /\ searchParams = NoQuery
    /\ callback = CallbackBlank
    /\ pending = {}
    /\ fetched = {}
    /\ result = NoResult
    /\ history = NoHistory

OpsNext ==
    \/ result.fn = "none" /\ handleGetUserInfo
    \/ \E response \in TokenResponses : UserInfoSettled(response)
    \/ \E tokenType \in TokenTypes, method \in ClientAuthMethods :
          result.fn = "none" /\ handleGetTokenInfo(tokenType, method)
    \/ \E response \in TokenResponses : TokenInfoSettled(response)
    \/ \E tokenType \in TokenTypes, method \in ClientAuthMethods :
          result.fn = "none" /\ handleRevokeToken(tokenType, method)
    \/ \E response \in TokenResponses : RevokeSettled(response)

SpecOps == OpsInit /\ [][OpsNext]_vars

-----------------------------------------------------------------------------
(* The exchange form: a callback arrives in a session an authorization     *)
(* request has written, and the user edits the parameters before they are  *)
(* submitted                                                               *)

FormStores ==
    {generateAuthUrl([k \in StorageKeys |-> null], flow, "abc", SessionVerifier,
                     "S256", usePKCE, "").store :
     flow \in Flows, usePKCE \in BOOLEAN}

FormInit ==
    /\ localStorage \in FormStores
    /\ page = "blank"
    /\ location = ""
    /\ searchParams = NoQuery
    /\ home = HomeBlank
    /\ callback = CallbackBlank
    /\ pending = {}
    /\ fetched = {}
    /\ result = NoResult
    /\ history = NoHistory

FormNext ==
    \/ \E query \in Queries : LoadCallback(query)
    \/ \E key \in ChangedKeys, value \in TypedValues : handleParamChange(key, value)
    \/ \E oldKey \in RenamedKeys, newKey \in TypedKeys : handleKeyChange(oldKey, newKey)
    \/ handleAddParam(CustomKey)
    \/ \E key \in RemovedKeys : handleRemoveParam(key)
    \/ handleRevert
    \/ handleSubmit

SpecForm == FormInit /\ [][FormNext]_vars

-----------------------------------------------------------------------------
(* One document: the callback page the provider redirected to, the home    *)
(* page router.push("/") shows after the exchange, and the browser's Back  *)
(* button. router.push and Back change the page inside the document, so    *)
(* the promises of an unmounted page stay outstanding; each page mounts    *)
(* with its own loading / submitting state. The buttons of the home page   *)
(* act only while they are rendered and not disabled.                      *)

\* the query of the redirect the document was loaded with
TabQuery == [code |-> SessionCode, state |-> "abc", error |-> null]

\* a request whose page has been unmounted: its handler still runs to its
\* end when the response arrives, its set-state calls have no effect
Unmounted(request) ==
    IF SubSeq(request.op, 1, 10) = "unmounted " THEN request
    ELSE [request EXCEPT !.op = "unmounted " \o @]

\* a button of the Token Operations card: the card is rendered when the
\* page has a token, the button is disabled={loading || !token}
TokenOperationButton(token, onClick) ==
    /\ page = "home"
    /\ Truthy(Tokens.accessToken) \/ Truthy(Tokens.refreshToken)
    /\ ~home.loading
    /\ Truthy(token)
    /\ onClick

\* the browser goes back from the home page that router.push("/") showed to
\* the /callback entry before it: Callback mounts again in the same document
historyBack ==
    /\ page = "home"
    /\ page' = "callback"
    /\ location' = "/callback"
    /\ searchParams' = TabQuery
    /\ callback' = CallbackEffect(localStorage, TabQuery)
    /\ home' = HomeBlank
    /\ pending' = {Unmounted(request) : request \in pending}
    /\ UNCHANGED <<localStorage, fetched, result, history>>

\* the response to a request of an unmounted home page arrives: the rest of
\* refreshAccessToken or handleRevokeToken runs and writes to tokenStore
UnmountedSettled(response) ==
    \E request \in pending :
        /\ SubSeq(request.op, 1, 10) = "unmounted "
        /\ pending' = pending \ {request}
        /\ localStorage' =
              IF request.op = "unmounted refreshAccessToken"
              THEN refreshAccessTokenSettle(localStorage, response).store
              ELSE IF request.op = "unmounted handleRevokeToken"
              THEN handleRevokeTokenSettle(localStorage, request.tokenType,
                                           response).store
              ELSE localStorage
        /\ UNCHANGED <<page, location, searchParams, home, callback, fetched,
                       result, history>>

\* the answers of the provider: tokens, an error status, no answer
TabResponses ==
    {response \in TokenResponses :
        \/ response.status = "ok" /\ response.refresh_token = "rt1"
        \/ response.status = "error" /\ response.parse = "object"
        \/ response.status = "rejected"}

\* getUserInfo, token info and revocation are used once in a behaviour, with
\* the client authentication the selector shows first
TabNext ==
    \/ LoadCallback(TabQuery)
    \/ handleSubmit
    \/ \E response \in TabResponses :
          ExchangeSettled(response, SessionVerifier, "V1StGXR8_Z5jdHi6B-myT")
    \/ handleRefreshToken
    \/ \E response \in TabResponses : RefreshSettled(response)
    \/ result.fn = "none"
          /\ TokenOperationButton(Tokens.accessToken, handleGetUserInfo)
    \/ \E response \in TabResponses : UserInfoSettled(response)
    \/ \E tokenType \in TokenTypes :
          result.fn = "none"
          /\ TokenOperationButton(SelectedToken(Tokens, tokenType),
                handleGetTokenInfo(tokenType, "client_secret_basic"))
    \/ \E response \in TabResponses : TokenInfoSettled(response)
    \/ \E tokenType \in TokenTypes :
          result.fn = "none"
          /\ TokenOperationButton(SelectedToken(Tokens, tokenType),
                handleRevokeToken(tokenType, "client_secret_basic"))
    \/ \E response \in TabResponses : RevokeSettled(response)
    \/ handleLogout
    \/ StartAuthorization
    \/ historyBack
    \/ \E response \in TabResponses : UnmountedSettled(response)

SpecTab == FormInit /\ [][TabNext]_vars

\* every fetch() settles: the response arrives or the request fails
SpecTabLive ==
    /\ SpecTab
    /\ WF_vars(\E response \in TabResponses :
                  ExchangeSettled(response, SessionVerifier, "V1StGXR8_Z5jdHi6B-myT"))
    /\ WF_vars(\E response \in TabResponses : RefreshSettled(response))
    /\ WF_vars(\E response \in TabResponses : UserInfoSettled(response))
    /\ WF_vars(\E response \in TabResponses : TokenInfoSettled(response))
    /\ WF_vars(\E response \in TabResponses : RevokeSettled(response))
    /\ WF_vars(\E response \in TabResponses : UnmountedSettled(response))

-----------------------------------------------------------------------------
(* Properties *)

StartsWith(s, prefix) ==
    Len(s) >= Len(prefix) /\ SubSeq(s, 1, Len(prefix)) = prefix

\* the stored state and mode as the callback page finds them
StoredState ==
    IF localStorage["oauth_state"] = null THEN "" ELSE localStorage["oauth_state"]

StoredModeRemoved == localStorage["oauth_state_mode"] = "removed"

\* a callback that is past the error and code checks
PastErrorAndCode ==
    /\ page = "callback"
    /\ searchParams.error = null
    /\ searchParams.code \notin {null, ""}

\* C1: with stateMode enabled, no error parameter and a code, the callback
\* passes validation exactly when the received state equals the stored state;
\* any other value, and an absent state whatever is stored (the empty string
\* included), fails with the state-mismatch error.
C1_EnabledStateMustMatch ==
    (PastErrorAndCode /\ ~StoredModeRemoved) =>
        /\ callback.showForm <=> (searchParams.state = StoredState)
        /\ searchParams.state # StoredState =>
              /\ ~callback.showForm
              /\ StartsWith(callback.error, "State parameter mismatch.")
        /\ searchParams.state = null => ~callback.showForm

\* an absent state met a stored empty state and was rejected
C1_Witness ==
    /\ PastErrorAndCode
    /\ ~StoredModeRemoved
    /\ localStorage["oauth_state"] = ""
    /\ searchParams.state = null
    /\ StartsWith(callback.error, "State parameter mismatch.")

\* C2: with stateMode removed, no error parameter and a code, the callback
\* passes validation exactly when it carries no state parameter; a state
\* parameter, the empty string included, fails with the unexpected-state
\* error and no request is issued.
C2_RemovedStateMustBeAbsent ==
    (PastErrorAndCode /\ StoredModeRemoved) =>
        /\ callback.showForm <=> (searchParams.state = null)
        /\ searchParams.state # null =>
              /\ ~callback.showForm
              /\ StartsWith(callback.error, "Unexpected state parameter received.")
              /\ fetched = {}
              /\ pending = {}

\* an empty state parameter arrived while the state was removed
C2_Witness ==
    /\ PastErrorAndCode
    /\ StoredModeRemoved
    /\ searchParams.state = ""
    /\ StartsWith(callback.error, "Unexpected state parameter received.")

\* the state rule of the callback: what it lets through
StateRulePasses ==
    IF StoredModeRemoved THEN searchParams.state = null
    ELSE searchParams.state = StoredState

\* C3 as stated: an error parameter that is present gives the authorization
\* error whatever the code and state; otherwise an absent code gives the
\* missing-code error; only then does the state rule apply.
C3_PresentErrorFirst ==
    page = "callback" =>
        /\ searchParams.error # null =>
              /\ ~callback.showForm
              /\ callback.error = "OAuth error: " \o searchParams.error
        /\ (searchParams.error = null /\ searchParams.code = null) =>
              /\ ~callback.showForm
              /\ callback.error = "Missing code"

\* C3 amended: an error parameter that is present and not empty gives the
\* authorization error whatever the code and state; otherwise a code that is
\* absent or empty gives the missing-code error whatever the state and mode;
\* only then does the state rule apply; a callback that failed shows no form
\* and issues no request.
C3_NonEmptyErrorFirst ==
    page = "callback" =>
        /\ searchParams.error \notin {null, ""} =>
              /\ ~callback.showForm
              /\ callback.error = "OAuth error: " \o searchParams.error
        /\ (searchParams.error \in {null, ""} /\ searchParams.code \in {null, ""}) =>
              /\ ~callback.showForm
              /\ callback.error = "Missing code"
        /\ (searchParams.error \in {null, ""} /\ searchParams.code \notin {null, ""}) =>
              /\ callback.showForm <=> StateRulePasses
              /\ ~callback.showForm =>
                    \/ StartsWith(callback.error, "Unexpected state parameter received.")
                    \/ StartsWith(callback.error, "State parameter mismatch.")
        /\ ~callback.showForm => (fetched = {} /\ pending = {})

\* an error arrived together with a code and the matching state
C3_Witness ==
    /\ page = "callback"
    /\ searchParams.error = "access_denied"
    /\ searchParams.code \notin {null, ""}
    /\ ~StoredModeRemoved
    /\ searchParams.state = StoredState
    /\ callback.error = "OAuth error: access_denied"

\* C4: a request is issued for a callback only after that callback has passed
\* validation, and it is the code exchange, a POST to /oauth/token; a callback
\* that fails validation issues no request and changes no session field.
C4_ExchangeOnlyAfterValidation ==
    [][page' = "callback" =>
          /\ fetched' # {} =>
                /\ callback'.showForm
                /\ searchParams'.error \in {null, ""}
                /\ searchParams'.code \notin {null, ""}
                /\ IF localStorage'["oauth_state_mode"] = "removed"
                   THEN searchParams'.state = null
                   ELSE searchParams'.state =
                          (IF localStorage'["oauth_state"] = null THEN ""
                           ELSE localStorage'["oauth_state"])
                /\ \A request \in fetched' :
                      /\ request.op = "exchangeCodeForTokens"
                      /\ request.url = FAPI_URL \o "/oauth/token"
                      /\ request.method = "POST"
          /\ ~callback'.showForm =>
                /\ fetched' = {}
                /\ pending' = {}
                /\ localStorage' = localStorage]_vars

\* the exchange request of a validated callback is in flight
C4_Witness ==
    /\ page = "callback"
    /\ callback.showForm
    /\ callback.submitting
    /\ pending # {}
    /\ fetched = pending

\* the query of the URL the last library call returned
ResultQuery == ParseQuery(result.value)

\* whether the store the last library call started from had the mode removed
RemovedAtCall == result.before["oauth_state_mode"] = "removed"

\* C5: the URL generateAuthUrl or generateAuthUrlPreview returns has a state
\* key exactly when stateMode is not removed at the call; with the mode
\* enabled the key is there once, with the state argument as its value, even
\* when that is the empty string; with the mode removed it is absent whatever
\* the arguments.
C5_StateKeyIffNotRemoved ==
    result.fn \in {"generateAuthUrl", "generateAuthUrlPreview"} =>
        /\ HasKey(ResultQuery, "state") <=> ~RemovedAtCall
        /\ ~RemovedAtCall =>
              /\ Count(ResultQuery, "state") = 1
              /\ Get(ResultQuery, "state") = result.args.state

\* an empty state was passed with the mode enabled, and the URL has the key
C5_Witness ==
    /\ result.fn = "generateAuthUrl"
    /\ ~RemovedAtCall
    /\ result.args.state = ""
    /\ Get(ResultQuery, "state") = ""

\* the URLs the application has built: the preview the home page shows and
\* the URL the browser was sent to
NoStateInBuiltUrls ==
    /\ page = "home" => ~HasKey(ParseQuery(AuthUrlPreview), "state")
    /\ page = "provider" => ~HasKey(ParseQuery(location), "state")

NewStateInBuiltUrls ==
    /\ page = "home" =>
          /\ home.state = history.newState
          /\ Get(ParseQuery(AuthUrlPreview), "state") = history.newState
    /\ page = "provider" => Get(ParseQuery(location), "state") = history.newState

\* C6 as stated: after removeState, until the state is refreshed or edited,
\* isStateRemoved() is true and no URL built has a state parameter; after
\* refreshState, isStateRemoved() is false, the stored state is the generated
\* value and a URL built with it has state=<that value>.
C6_RemovedUntilRefreshOrEdit ==
    /\ history.stateOp = "remove" =>
          /\ isStateRemoved(localStorage)
          /\ NoStateInBuiltUrls
    /\ history.newState # null =>
          /\ ~isStateRemoved(localStorage)
          /\ localStorage["oauth_state"] = history.newState
          /\ NewStateInBuiltUrls

\* C6 amended: after removeState, until the state is refreshed or edited or
\* the session is reset by logout, isStateRemoved() is true and no URL built
\* has a state parameter; after refreshState, isStateRemoved() is false, the
\* stored state is the generated value and a URL built with it has
\* state=<that value>.
C6_RemovedUntilRefreshEditOrLogout ==
    /\ (history.stateOp = "remove" /\ ~history.logoutSince) =>
          /\ isStateRemoved(localStorage)
          /\ NoStateInBuiltUrls
    /\ history.newState # null =>
          /\ ~isStateRemoved(localStorage)
          /\ localStorage["oauth_state"] = history.newState
          /\ NewStateInBuiltUrls

\* an authorization request was sent after the state was removed
C6_Witness ==
    /\ history.stateOp = "remove"
    /\ ~history.logoutSince
    /\ page = "provider"
    /\ ~HasKey(ParseQuery(location), "state")

\* C7: when generateAuthUrl was given verifier v with PKCE active, the default
\* exchange parameters of a later callback carry code_verifier = v, whatever
\* was generated or typed on the home page in between, as long as no other
\* generateAuthUrl call and no logout came in between.
C7_VerifierReachesExchange ==
    (page = "callback" /\ callback.showForm /\ history.codeVerifier # null) =>
        /\ Get(callback.defaultParams, "code_verifier") = history.codeVerifier
        /\ Count(callback.defaultParams, "code_verifier") = 1

\* a callback was validated after a request that sent a generated verifier
C7_Witness ==
    /\ page = "callback"
    /\ callback.showForm
    /\ history.codeVerifier \in GeneratedVerifiers
    /\ Get(callback.defaultParams, "code_verifier") = history.codeVerifier

\* whether the arguments of the last library call have PKCE active
PKCEActive == result.args.usePKCE /\ result.args.codeChallengeMethod # "omit"

\* C8: the URL generateAuthUrl returns has code_challenge and
\* code_challenge_method, once each, exactly when usePKCE is true and the
\* method is not omit; code_challenge is the verifier itself for plain and
\* generateCodeChallenge(verifier) for S256 (the digest of RFC 7636 for its
\* verifier), and code_challenge_method is the method.
C8_ChallengeIffPKCEActive ==
    result.fn = "generateAuthUrl" =>
        /\ HasKey(ResultQuery, "code_challenge") <=> PKCEActive
        /\ HasKey(ResultQuery, "code_challenge_method") <=> PKCEActive
        /\ PKCEActive =>
              /\ Count(ResultQuery, "code_challenge") = 1
              /\ Count(ResultQuery, "code_challenge_method") = 1
              /\ Get(ResultQuery, "code_challenge_method") = result.args.codeChallengeMethod
              /\ Get(ResultQuery, "code_challenge") =
                    IF result.args.codeChallengeMethod = "plain"
                    THEN result.args.codeVerifier
                    ELSE generateCodeChallenge(result.args.codeVerifier)
              /\ (/\ result.args.codeChallengeMethod = "S256"
                  /\ result.args.codeVerifier = "dBjftJeZ4CVP-mB92K27uhbUJU1p1r_wW1gFWFOEjXk")
                 => Get(ResultQuery, "code_challenge")
                       = "E9Melhoa2OwvFrEMTJguCHaoeK1t8URWbuGJSstw-cM"

\* a typed verifier was sent as it is with the method plain
C8_Witness ==
    /\ result.fn = "generateAuthUrl"
    /\ result.args.usePKCE
    /\ result.args.codeChallengeMethod = "plain"
    /\ result.args.codeVerifier = "a+b c"
    /\ Get(ResultQuery, "code_challenge") = "a+b c"

\* C9: getDefaultTokenExchangeParams(code) has client_id, code, the stored
\* verifier as code_verifier, grant_type authorization_code and redirect_uri,
\* and has the client_secret key, with the secret, exactly when the stored
\* flow is confidential; for a public flow it has no such key.
C9_DefaultExchangeParams ==
    result.fn = "getDefaultTokenExchangeParams" =>
        LET confidential == result.before["oauth_flow"] = "confidential"
            verifier == IF result.before["oauth_code_verifier"] = null THEN ""
                        ELSE result.before["oauth_code_verifier"]
            keys == {result.value[i][1] : i \in DOMAIN result.value}
        IN  /\ Get(result.value, "client_id") = CLIENT_ID
            /\ Get(result.value, "code") = result.args
            /\ Get(result.value, "code_verifier") = verifier
            /\ Get(result.value, "grant_type") = "authorization_code"
            /\ Get(result.value, "redirect_uri") = REDIRECT_URI
            /\ HasKey(result.value, "client_secret") <=> confidential
            /\ confidential => Get(result.value, "client_secret") = CLIENT_SECRET
            /\ keys = {"client_id", "code", "code_verifier", "grant_type", "redirect_uri"}
                      \cup (IF confidential THEN {"client_secret"} ELSE {})
            /\ Len(result.value) = Cardinality(keys)

\* the parameters of a public flow, without the client_secret key
C9_Witness ==
    /\ result.fn = "getDefaultTokenExchangeParams"
    /\ result.before["oauth_flow"] = "public"
    /\ ~HasKey(result.value, "client_secret")
    /\ Len(result.value) = 5

\* C10: a code exchange or refresh that fails (non-2xx status, rejected
\* fetch, or a body that cannot be parsed) leaves every session field as it
\* was: neither the step that issues the request nor the step that handles
\* the failed response changes the store.
C10_FailedTokenCallKeepsSession ==
    [][/\ (pending # pending' /\ pending \subseteq pending') =>
              localStorage' = localStorage
       /\ (/\ pending' # pending
           /\ pending' \subseteq pending
           /\ \/ page' = "callback" /\ callback'.error # null
              \/ page' = "home" /\ home'.error # null) =>
              localStorage' = localStorage]_vars

\* the token endpoint refused the exchange of a validated callback
C10_Witness ==
    /\ page = "callback"
    /\ callback.showForm
    /\ callback.error = "Failed to exchange code for tokens"
    /\ pending = {}

\* a call of fn whose promise is in the given state
Called(fn, state) ==
    /\ result.fn = fn
    /\ result.value.state = state

\* what the session is said to hold for a field of a token response: the
\* field's value, or the empty string when the response does not have it
FieldOrEmpty(v) == IF v = undefined THEN "" ELSE v

\* C12: after a successful refresh the three stored tokens are the
\* response's access_token, refresh_token and id_token, and a field the
\* response does not have reads as the empty string.
C12_RefreshOverwritesTokens ==
    Called("refreshAccessToken", "fulfilled") =>
        /\ tokenStore(localStorage).accessToken = FieldOrEmpty(result.args.access_token)
        /\ tokenStore(localStorage).refreshToken = FieldOrEmpty(result.args.refresh_token)
        /\ tokenStore(localStorage).idToken = FieldOrEmpty(result.args.id_token)

\* C13: after a successful code exchange whose response has no refresh_token
\* the stored refreshToken is empty and refreshAccessToken() throws before it
\* fetches; and with no id_token in the response the stored idToken is empty.
C13_ExchangeWithoutRefreshToken ==
    Called("exchangeCodeForTokens", "fulfilled") =>
        /\ result.args.refresh_token = undefined =>
              /\ tokenStore(localStorage).refreshToken = ""
              /\ refreshAccessTokenRequest(localStorage).threw
        /\ result.args.id_token = undefined =>
              tokenStore(localStorage).idToken = ""

\* C14: a code exchange answered by a non-2xx status with a JSON body fails
\* with an error that carries that body, not with the generic exchange error.
C14_ExchangeErrorCarriesBody ==
    (/\ Called("exchangeCodeForTokens", "rejected")
     /\ result.args.status = "error"
     /\ result.args.parse = "object") =>
        result.value.message # "Failed to exchange code for tokens"

\* C15: refreshAccessToken() called while the stored refreshToken is empty
\* throws the no-refresh-token error at once: no request is sent and the
\* store is as the call found it.
C15_RefreshWithoutTokenFailsFast ==
    (/\ result.fn = "refreshAccessToken"
     /\ tokenStore(result.before).refreshToken = "") =>
        /\ result.value.state = "rejected"
        /\ result.value.message = "No refresh token available"
        /\ fetched = {}
        /\ pending = {}
        /\ localStorage = result.before

\* a session that never had a refresh token, and a call refused for it
C15_Witness ==
    /\ Called("refreshAccessToken", "rejected")
    /\ tokenStore(result.before).refreshToken = ""
    /\ tokenStore(result.before).accessToken # ""
    /\ fetched = {}

\* C18: the stored flow is the flow of the last generateAuthUrl call,
\* confidential once a client-credentials grant has succeeded after it and
\* public after the session was reset; and a refresh request carries
\* client_id, the stored refresh_token and grant_type refresh_token, and
\* client_secret exactly when that flow is confidential.
C18_RefreshSecretFollowsFlow ==
    [][/\ tokenStore(localStorage').flow = history'.flow
       /\ \A request \in pending' \ pending :
             request.op = "refreshAccessToken" =>
                LET params == ParseForm(request.body)
                    keys == {params[i][1] : i \in DOMAIN params}
                    confidential == history.flow = "confidential"
                IN  /\ request.url = FAPI_URL \o "/oauth/token"
                    /\ request.method = "POST"
                    /\ Get(params, "client_id") = CLIENT_ID
                    /\ Get(params, "refresh_token") = tokenStore(localStorage).refreshToken
                    /\ Get(params, "grant_type") = "refresh_token"
                    /\ HasKey(params, "client_secret") <=> confidential
                    /\ confidential => Get(params, "client_secret") = CLIENT_SECRET
                    /\ keys = {"client_id", "refresh_token", "grant_type"}
                              \cup (IF confidential THEN {"client_secret"} ELSE {})
                    /\ Len(params) = Cardinality(keys)]_vars

\* a refresh sent with the secret after a client-credentials grant replaced
\* the access token of an authorization-code session
C18_Witness ==
    /\ \E request \in pending :
          /\ request.op = "refreshAccessToken"
          /\ HasKey(ParseForm(request.body), "client_secret")
    /\ tokenStore(localStorage).accessToken = "at2"
    /\ tokenStore(localStorage).refreshToken = "rt1"
    /\ history.flow = "confidential"

\* the session fields getClientCredentialsToken has no business with
KeptByClientCredentials ==
    {"oauth_refresh_token", "oauth_id_token", "oauth_state", "oauth_state_mode",
     "oauth_code_verifier", "oauth_prompt"}

\* C19: getClientCredentialsToken sends client_id, client_secret, grant_type
\* client_credentials and scope, whatever the stored flow; when it succeeds
\* the stored accessToken is the response's access_token, the flow is
\* confidential and the six other fields are as before; when the answer is a
\* non-2xx status no field changes.
C19_ClientCredentialsFrame ==
    /\ \A request \in fetched :
          request.op = "getClientCredentialsToken" =>
             /\ request.url = FAPI_URL \o "/oauth/token"
             /\ request.method = "POST"
             /\ ParseForm(request.body) =
                   << <<"client_id", CLIENT_ID>>, <<"client_secret", CLIENT_SECRET>>,
                      <<"grant_type", "client_credentials">>,
                      <<"scope", "email profile">> >>
    /\ Called("getClientCredentialsToken", "fulfilled") =>
          /\ result.args.access_token # undefined =>
                tokenStore(localStorage).accessToken = result.args.access_token
          /\ tokenStore(localStorage).flow = "confidential"
          /\ \A k \in KeptByClientCredentials : localStorage[k] = result.before[k]
    /\ (/\ Called("getClientCredentialsToken", "rejected")
        /\ result.args.status = "error") =>
          localStorage = result.before

\* a grant that succeeded on a public session holding a refresh token, with
\* a response that has no refresh_token
C19_Witness ==
    /\ Called("getClientCredentialsToken", "fulfilled")
    /\ tokenStore(result.before).flow = "public"
    /\ tokenStore(result.before).refreshToken = "rt1"
    /\ result.args.refresh_token = undefined
    /\ tokenStore(localStorage).accessToken = "at2"

\* the value each getter of tokenStore returns for an absent key
TokenStoreDefaults ==
    [accessToken |-> "", refreshToken |-> "", idToken |-> "", codeVerifier |-> "",
     state |-> "", stateMode |-> "enabled", flow |-> "public", prompt |-> ""]

\* C20: after resetTokenStore() every session field reads its default (the
\* tokens, the verifier, the state and the prompt are empty, stateMode is
\* enabled, flow is public), and a getter always returns a string, for an
\* absent key too.
C20_ResetRestoresDefaults ==
    /\ result.fn = "resetTokenStore" => tokenStore(localStorage) = TokenStoreDefaults
    /\ \A property \in DOMAIN StorageKey :
          tokenStore(localStorage)[property] \notin {null, undefined}

\* a reset of a confidential session with tokens and a removed state
C20_Witness ==
    /\ result.fn = "resetTokenStore"
    /\ tokenStore(result.before).accessToken # ""
    /\ tokenStore(result.before).refreshToken # ""
    /\ tokenStore(result.before).codeVerifier # ""
    /\ tokenStore(result.before).stateMode = "removed"
    /\ tokenStore(result.before).flow = "confidential"

\* the localStorage key of the token a token operation is about
TokenKey(tokenType) ==
    IF tokenType = "access" THEN "oauth_access_token" ELSE "oauth_refresh_token"

\* C11: a revocation of the access or the refresh token that the provider
\* answers with a non-2xx status, or whose request fails, leaves every
\* session field as it was; one the provider answers with a 2xx status
\* leaves the token of that type empty and every other field, the sibling
\* token and the ID token included, as it was.
C11_RevokeClearsOnlyOnSuccess ==
    (/\ result.fn = "handleRevokeToken"
     /\ result.value.state # "pending") =>
        LET key == TokenKey(result.args.tokenType) IN
        /\ result.value.state = "rejected" => localStorage = result.before
        /\ result.value.state = "fulfilled" =>
              /\ result.args.response.status = "ok"
              /\ localStorage[key] = ""
              /\ tokenStore(localStorage)[IF result.args.tokenType = "access"
                                          THEN "accessToken" ELSE "refreshToken"] = ""
              /\ \A k \in StorageKeys \ {key} : localStorage[k] = result.before[k]
              /\ Tokens = TokensCopy(localStorage)
        /\ (/\ pending = {}
            /\ fetched # {}
            /\ result.args.response.status # "ok") =>
              result.value.state = "rejected"

\* the access token of a session that also holds a refresh and an ID token
\* was revoked
C11_Witness ==
    /\ Called("handleRevokeToken", "fulfilled")
    /\ result.args.tokenType = "access"
    /\ result.before["oauth_access_token"] = "at1"
    /\ tokenStore(localStorage).accessToken = ""
    /\ tokenStore(localStorage).refreshToken = "rt1"
    /\ tokenStore(localStorage).idToken = "id1"

\* the token a request of a token operation carries
CarriedToken(request) ==
    IF request.op = "getUserInfo"
    THEN SubSeq(Get(request.headers, "Authorization"), Len("Bearer ") + 1,
                Len(Get(request.headers, "Authorization")))
    ELSE Get(ParseForm(request.body), "token")

\* C16: no user-info, token-info or revocation request carries an empty
\* token: getUserInfo throws the no-token error when the stored accessToken
\* is empty, and the token-info and revocation handlers throw it when the
\* token of the type they are asked for is empty, before any request is
\* sent and without a change of the session.
C16_NoRequestWithEmptyToken ==
    /\ \A request \in fetched :
          /\ request.op \in {"getUserInfo", "handleGetTokenInfo", "handleRevokeToken"}
          /\ CarriedToken(request) \notin {null, ""}
          /\ request.op = "getUserInfo" =>
                StartsWith(Get(request.headers, "Authorization"), "Bearer ")
    /\ (/\ result.fn = "handleGetUserInfo"
        /\ tokenStore(result.before).accessToken = "") =>
          /\ result.value.state = "rejected"
          /\ home.error = "No access token available"
          /\ fetched = {}
          /\ localStorage = result.before
    /\ \A tokenType \in TokenTypes :
          (/\ result.fn \in {"handleGetTokenInfo", "handleRevokeToken"}
           /\ result.args.tokenType = tokenType
           /\ result.before[TokenKey(tokenType)] \in {null, ""}) =>
             /\ result.value.state = "rejected"
             /\ home.error = "No " \o tokenType \o " token available"
             /\ fetched = {}
             /\ localStorage = result.before

\* a revocation of the refresh token was asked for in a session whose
\* refresh token a revocation had cleared, and that still holds an access
\* token
C16_Witness ==
    /\ Called("handleRevokeToken", "rejected")
    /\ result.args.tokenType = "refresh"
    /\ result.before["oauth_refresh_token"] = ""
    /\ result.before["oauth_access_token"] = "at1"
    /\ home.error = "No refresh token available"
    /\ fetched = {}

\* the entries of a mapping whose value is not blank
NonBlank(params) ==
    {params[i] : i \in {j \in DOMAIN params : trim(params[j][2]) # ""}}

\* C17: the body of the code-exchange request holds exactly the entries of
\* the submitted parameters whose value is not blank after trimming, keys
\* and values as submitted, whatever the user added, renamed or removed; so
\* the unedited parameters of a session with an empty stored verifier are
\* sent without a code_verifier key.
C17_BodyIsNonBlankParams ==
    [][(pending' # pending /\ pending \subseteq pending') =>
          \A request \in pending' \ pending :
             LET sent == ParseForm(request.body) IN
             /\ request.op = "exchangeCodeForTokens"
             /\ {sent[i] : i \in DOMAIN sent} = NonBlank(callback.params)
             /\ Len(sent) = Cardinality(NonBlank(callback.params))
             /\ (/\ callback.params = callback.defaultParams
                 /\ tokenStore(localStorage).codeVerifier = "") =>
                   ~HasKey(sent, "code_verifier")]_vars

\* parameters submitted with a key the user added and gave a value that
\* needs encoding, and with the empty code_verifier of a flow without PKCE
C17_Witness ==
    /\ callback.submitting
    /\ Get(callback.params, "code_verifier") = ""
    /\ \E request \in pending :
          /\ Get(ParseForm(request.body), CustomKey) = "a b&c"
          /\ ~HasKey(ParseForm(request.body), "code_verifier")
          /\ HasKey(ParseForm(request.body), "grant_type")

\* what a call of initializeState() has returned and left, given the store it
\* found and the state generateState() would give it
InitializeStateDone(before, generated, value, after) ==
    IF tokenStore(before).stateMode = "removed"
    THEN value = "" /\ after = before
    ELSE IF tokenStore(before).state # ""
    THEN value = tokenStore(before).state /\ after = before
    ELSE /\ value = generated
         /\ after["oauth_state"] = generated
         /\ after["oauth_state_mode"] = "enabled"
         /\ \A k \in StorageKeys \ {"oauth_state", "oauth_state_mode"} :
               after[k] = before[k]

\* C21: initializeState() returns "" and writes nothing when the mode is
\* removed; otherwise it returns the stored state and writes nothing when
\* that state is not empty; otherwise it stores the state it generates with
\* the mode enabled and returns it. A call that follows another call of it
\* returns the same value.
C21_InitializeStateIsStable ==
    [][result'.fn = "initializeState" =>
          /\ InitializeStateDone(result'.before, result'.args, result'.value,
                                 localStorage')
          /\ result.fn = "initializeState" => result'.value = result.value]_vars

\* a second call that was handed another generated state and returned the
\* one the first call had stored
C21_Witness ==
    /\ result.fn = "initializeState"
    /\ tokenStore(result.before).stateMode = "enabled"
    /\ result.before["oauth_state"] \in GeneratedStates
    /\ result.args # result.value
    /\ result.value = result.before["oauth_state"]

\* the query of the authorization URL generateAuthUrl builds on store ls for
\* a state, with the page's default PKCE settings
AuthQueryFor(ls, flow, state, usePKCE, prompt) ==
    ParseQuery(generateAuthUrl(ls, flow, state, SessionVerifier, "S256",
                               usePKCE, prompt).value)

\* C22: an edit of the state to v, whatever the state and the mode were,
\* leaves v as the stored state, as it is, and the mode enabled; so, for the
\* empty v too, an authorization URL built for v carries exactly one state
\* parameter, with the value v, and a callback with a code and without an
\* error passes validation exactly when its state parameter is v.
C22_EditStoresStateAndEnables ==
    result.fn = "handleStateChange" =>
        LET v == result.args IN
        /\ localStorage["oauth_state"] = v
        /\ tokenStore(localStorage).state = v
        /\ tokenStore(localStorage).stateMode = "enabled"
        /\ ~isStateRemoved(localStorage)
        /\ \A flow \in Flows, usePKCE \in BOOLEAN, prompt \in PromptArgs :
              LET r == generateAuthUrl(localStorage, flow, v, SessionVerifier,
                                       "S256", usePKCE, prompt)
              IN  /\ Count(AuthQueryFor(localStorage, flow, v, usePKCE, prompt),
                           "state") = 1
                  /\ Get(AuthQueryFor(localStorage, flow, v, usePKCE, prompt),
                         "state") = v
                  /\ \A query \in Queries :
                        (Truthy(query.code) /\ ~Truthy(query.error)) =>
                           (CallbackEffect(r.store, query).showForm
                               <=> query.state = v)

\* the state was edited to the empty string in a session whose state had
\* been removed
C22_Witness ==
    /\ result.fn = "handleStateChange"
    /\ result.args = ""
    /\ tokenStore(result.before).stateMode = "removed"
    /\ localStorage["oauth_state"] = ""
    /\ localStorage["oauth_state_mode"] = "enabled"

\* the session fields generateAuthUrl has no business with
KeptByGenerateAuthUrl ==
    {"oauth_access_token", "oauth_refresh_token", "oauth_id_token",
     "oauth_state_mode"}

\* C23: after generateAuthUrl the stored flow, state and prompt are its
\* arguments; the stored verifier is the verifier it was given when PKCE is
\* active and the empty string when it is not (usePKCE false, or method
\* omit), whatever verifier was stored before; the three tokens and the
\* stateMode are as they were.
C23_GenerateAuthUrlWrites ==
    result.fn = "generateAuthUrl" =>
        /\ localStorage["oauth_flow"] = result.args.flow
        /\ localStorage["oauth_state"] = result.args.state
        /\ localStorage["oauth_prompt"] = result.args.prompt
        /\ localStorage["oauth_code_verifier"] =
              (IF result.args.usePKCE /\ result.args.codeChallengeMethod # "omit"
               THEN result.args.codeVerifier ELSE "")
        /\ tokenStore(localStorage).flow = result.args.flow
        /\ \A k \in KeptByGenerateAuthUrl : localStorage[k] = result.before[k]

\* a request without PKCE in a session that held the verifier of an earlier
\* request
C23_Witness ==
    /\ result.fn = "generateAuthUrl"
    /\ ~result.args.usePKCE
    /\ result.before["oauth_code_verifier"] = SessionVerifier
    /\ tokenStore(localStorage).codeVerifier = ""
    /\ result.before["oauth_state_mode"] = "removed"
    /\ result.args.flow = "confidential"

\* whether a request carries the client credentials in its Authorization
\* header, and whether it carries them in its body
BasicInHeader(request) ==
    /\ Count(request.headers, "Authorization") = 1
    /\ Get(request.headers, "Authorization") = "Basic " \o BasicCredentials

CredentialsInBody(request) ==
    /\ Get(ParseForm(request.body), "client_id") = CLIENT_ID
    /\ Get(ParseForm(request.body), "client_secret") = CLIENT_SECRET
    /\ Count(ParseForm(request.body), "client_id") = 1
    /\ Count(ParseForm(request.body), "client_secret") = 1

NothingInHeader(request) == ~HasKey(request.headers, "Authorization")

NothingInBody(request) ==
    /\ ~HasKey(ParseForm(request.body), "client_id")
    /\ ~HasKey(ParseForm(request.body), "client_secret")

\* C24: a token-info or revocation request carries the client credentials in
\* one place: with client_secret_basic in the Authorization Basic header, the
\* body having neither client_id nor client_secret; with client_secret_post
\* as client_id and client_secret in the body, without an Authorization
\* header; never in both places and never in neither.
C24_CredentialsInOnePlace ==
    /\ \A request \in fetched :
          request.op \in {"handleGetTokenInfo", "handleRevokeToken"} =>
             \/ BasicInHeader(request) /\ NothingInBody(request)
             \/ CredentialsInBody(request) /\ NothingInHeader(request)
    /\ (/\ result.fn \in {"handleGetTokenInfo", "handleRevokeToken"}
        /\ result.value.state = "pending") =>
          \A request \in pending :
             /\ result.args.clientAuthMethod = "client_secret_basic" =>
                   BasicInHeader(request) /\ NothingInBody(request)
             /\ result.args.clientAuthMethod = "client_secret_post" =>
                   CredentialsInBody(request) /\ NothingInHeader(request)

\* a revocation sent with client_secret_basic: the header, and a body of
\* token and token_type_hint alone
C24_Witness ==
    /\ result.fn = "handleRevokeToken"
    /\ result.value.state = "pending"
    /\ result.args.clientAuthMethod = "client_secret_basic"
    /\ \E request \in pending :
          /\ BasicInHeader(request)
          /\ Len(ParseForm(request.body)) = 2
          /\ Get(ParseForm(request.body), "token_type_hint") = "refresh_token"

\* the part of a URL before its query
UrlTarget(url) ==
    LET i == IndexOf(url, "?", 1) IN
    IF i = 0 THEN url ELSE SubSeq(url, 1, i - 1)

RequiredParameters ==
    { <<"response_type", "code">>, <<"client_id", CLIENT_ID>>,
      <<"redirect_uri", REDIRECT_URI>>, <<"scope", "email profile">> }

\* C25: every URL generateAuthUrl returns targets {base}/oauth/authorize and
\* has exactly one response_type=code, one client_id (the configured id), one
\* redirect_uri (the configured URI) and one scope of "email profile",
\* whatever the flow, state, PKCE and prompt arguments and the stored mode.
C25_RequiredParametersOnce ==
    result.fn = "generateAuthUrl" =>
        /\ UrlTarget(result.value) = FAPI_URL \o "/oauth/authorize"
        /\ \A kv \in RequiredParameters :
              /\ Count(ResultQuery, kv[1]) = 1
              /\ Get(ResultQuery, kv[1]) = kv[2]

\* a URL built with the state removed, PKCE off and a blank prompt: the four
\* parameters are all it has
C25_Witness ==
    /\ result.fn = "generateAuthUrl"
    /\ RemovedAtCall
    /\ ~result.args.usePKCE
    /\ result.args.prompt = " "
    /\ Len(ResultQuery) = 4
    /\ Get(ResultQuery, "scope") = "email profile"

\* C26: the URL generateAuthUrl returns has a prompt parameter exactly when
\* the prompt argument is not blank after trimming, once and with the
\* argument as its value; a prompt of white space alone is left out.
C26_PromptIffNonBlank ==
    result.fn = "generateAuthUrl" =>
        /\ HasKey(ResultQuery, "prompt") <=> trim(result.args.prompt) # ""
        /\ HasKey(ResultQuery, "prompt") =>
              /\ Count(ResultQuery, "prompt") = 1
              /\ Get(ResultQuery, "prompt") = result.args.prompt

\* a prompt of one space was passed and the URL has no prompt
C26_Witness ==
    /\ result.fn = "generateAuthUrl"
    /\ result.args.prompt = " "
    /\ ~HasKey(ResultQuery, "prompt")
    /\ tokenStore(localStorage).prompt = " "

\* the URL generateAuthUrl returns when called with the arguments of the
\* last call, for a given flow, in the store that call started from
GeneratedFor(flow) ==
    generateAuthUrl(result.before, flow, result.args.state,
                    result.args.codeVerifier, result.args.codeChallengeMethod,
                    result.args.usePKCE, result.args.prompt).value

\* C28: generateAuthUrlPreview writes no session field, and the URL it
\* returns is the URL generateAuthUrl returns for the same arguments in the
\* same store; that URL is the same for either flow.
C28_PreviewIsTheUrl ==
    result.fn = "generateAuthUrlPreview" =>
        /\ localStorage = result.before
        /\ \A flow \in Flows : result.value = GeneratedFor(flow)

\* a preview for a state other than the stored one, on a store whose
\* verifier, flow and prompt generateAuthUrl would have overwritten
C28_Witness ==
    /\ result.fn = "generateAuthUrlPreview"
    /\ result.before["oauth_state"] = "abc"
    /\ result.args.state = "a&state=b"
    /\ result.args.flow = "confidential"
    /\ result.args.prompt = "login consent"
    /\ ~RemovedAtCall
    /\ localStorage["oauth_flow"] = null
    /\ localStorage["oauth_state"] = "abc"
    /\ Get(ResultQuery, "state") = "a&state=b"

\* the operations that only read the session, and the two that store tokens
ReadOnlyOperations ==
    {"getUserInfo", "handleGetTokenInfo", "Callback.useEffect",
     "getDefaultTokenExchangeParams"}

TokenOperations == {"exchangeCodeForTokens", "refreshAccessToken"}

KeptByTokenOperations ==
    {"oauth_state", "oauth_state_mode", "oauth_code_verifier", "oauth_flow",
     "oauth_prompt"}

\* C29: getUserInfo, token introspection, the callback validation and
\* getDefaultTokenExchangeParams leave every session field as it was; a code
\* exchange or a refresh, successful or not, leaves state, stateMode,
\* codeVerifier, flow and prompt as they were, so a successful callback does
\* not use up or replace the stored state or verifier.
C29_ReadersAndTokenWriters ==
    /\ result.fn \in ReadOnlyOperations => localStorage = result.before
    /\ result.fn \in TokenOperations =>
          \A k \in KeptByTokenOperations : localStorage[k] = result.before[k]

\* an exchange has succeeded and stored its tokens, and the state and the
\* verifier of the request are still stored
C29_Witness ==
    /\ Called("exchangeCodeForTokens", "fulfilled")
    /\ localStorage["oauth_access_token"] = "at1"
    /\ result.before["oauth_access_token"] # "at1"
    /\ localStorage["oauth_state"] = "abc"
    /\ localStorage["oauth_code_verifier"] = SessionVerifier
    /\ localStorage["oauth_flow"] = "confidential"

\* C30: while a request is outstanding the page that is shown has its guard
\* set (loading on the home page, submitting on the callback page), so that
\* no refresh, user info, token info, revocation, flow start, logout or
\* second exchange can be started, and at most one request is in flight.
C30_OneRequestInFlight ==
    /\ Cardinality(pending) <= 1
    /\ pending # {} =>
          \/ page = "home" /\ home.loading
          \/ page = "callback" /\ callback.submitting

\* the pair (stored state, stateMode) as tokenStore reads it
StatePair == <<tokenStore(localStorage).state, tokenStore(localStorage).stateMode>>

\* C31: whatever state controls, flow starts, reloads, callbacks and logouts
\* came before, a stateMode of removed goes with an empty stored state; and
\* of refresh-state and remove-state the one used last decides the pair:
\* ("", removed) after a removal, (the generated value, enabled) after a
\* refresh, until the next state control or logout.
C31_StatePairNeverMixed ==
    /\ StatePair[2] = "removed" => StatePair[1] = ""
    /\ (history.stateOp = "remove" /\ ~history.logoutSince) =>
          StatePair = <<"", "removed">>
    /\ (history.stateOp = "refresh" /\ history.newState # null) =>
          StatePair = <<history.newState, "enabled">>

\* a flow was started with the state removed: generateAuthUrl has stored
\* the page's empty state next to the mode removed
C31_Witness ==
    /\ page = "provider"
    /\ history.stateOp = "remove"
    /\ localStorage["oauth_flow"] = "confidential"
    /\ localStorage["oauth_state"] = ""
    /\ localStorage["oauth_state_mode"] = "removed"

\* C32: on the mounted home page, after every action of the page, the
\* page's stateRemoved flag is isStateRemoved() of the session and the
\* page's state is the stored state, so the state controls shown agree with
\* whether the next authorization URL carries a state parameter.
C32_StateControlsAgree ==
    page = "home" =>
        /\ home.stateRemoved = isStateRemoved(localStorage)
        /\ home.state = tokenStore(localStorage).state
        /\ home.stateRemoved = ~HasKey(ParseQuery(AuthUrlPreview), "state")

\* C33: whenever the home page has no request outstanding, the tokens it
\* holds are the stored tokens; and a token-info or revocation request of
\* the page for type T carries the stored token of type T, a revocation
\* with token_type_hint "<T>_token".
C33_PageTokensAreStored ==
    page = "home" =>
        /\ pending = {} =>
              /\ Tokens.accessToken = tokenStore(localStorage).accessToken
              /\ Tokens.refreshToken = tokenStore(localStorage).refreshToken
        /\ \A request \in pending :
              request.op \in {"handleGetTokenInfo", "handleRevokeToken"} =>
                 /\ Get(ParseForm(request.body), "token")
                       = localStorage[TokenKey(request.tokenType)]
                 /\ request.op = "handleRevokeToken" =>
                       Get(ParseForm(request.body), "token_type_hint")
                          = request.tokenType \o "_token"

PromptParts(prompt) == IF prompt = "" THEN <<>> ELSE split(prompt, " ")

\* parts in strictly ascending order, hence without duplicates
Ascending(parts) ==
    \A i \in 1..(Len(parts) - 1) : Before(parts[i], parts[i + 1])

\* C35: with the prompt set by the prompt buttons from an empty selection,
\* the page's prompt and the stored prompt are the selected values in
\* ascending order, each once, separated by single spaces, so the prompt is
\* decided by the selected set alone; and a toggle changes the selection by
\* exactly the value toggled, so that toggling it again restores the
\* selection and with it the prompt.
C35_PromptIsSortedSelection ==
    /\ [](page = "home" =>
            /\ {PromptParts(home.prompt)[i] : i \in DOMAIN PromptParts(home.prompt)}
                  = home.selectedPrompts
            /\ Ascending(PromptParts(home.prompt))
            /\ tokenStore(localStorage).prompt = home.prompt)
    /\ [][(page = "home" /\ page' = "home" /\ home'.prompt # home.prompt) =>
             \E v \in PromptValues :
                /\ v \in home.selectedPrompts =>
                      home'.selectedPrompts = home.selectedPrompts \ {v}
                /\ v \notin home.selectedPrompts =>
                      home'.selectedPrompts = home.selectedPrompts \cup {v}]_vars

\* three values were selected and the prompt lists them in ascending order
C35_Witness ==
    /\ page = "home"
    /\ home.selectedPrompts = {"select_account", "login", "consent"}
    /\ home.prompt = "consent login select_account"
    /\ localStorage["oauth_prompt"] = "consent login select_account"

Keys(entries) == {entries[i][1] : i \in DOMAIN entries}

\* the same key set, and for every key the same value
SameMapping(a, b) ==
    /\ Keys(a) = Keys(b)
    /\ \A key \in Keys(a) : Get(a, key) = Get(b, key)

\* C36: on the callback form, whatever values were changed and keys renamed,
\* added or removed, hasChanges() is false exactly when the parameters have
\* the keys of the defaults and for every key the value of the defaults, in
\* whatever order the keys are; and "Revert to Defaults" makes the parameters
\* the defaults computed when the callback was validated, which no edit
\* changes.
C36_RevertAndHasChanges ==
    /\ [](FormShown =>
            (~hasChanges <=> SameMapping(callback.params, callback.defaultParams)))
    /\ [][handleRevert =>
             /\ callback'.params = callback.defaultParams
             /\ callback'.defaultParams = callback.defaultParams
             /\ ~hasChanges']_vars
    /\ [][(FormShown /\ FormShown' /\ searchParams' = searchParams) =>
             callback'.defaultParams = callback.defaultParams]_vars

\* a key was renamed and renamed back: the parameters are the defaults in
\* another key order, and hasChanges() is false
C36_Witness ==
    /\ FormShown
    /\ ~hasChanges
    /\ callback.params # callback.defaultParams
    /\ callback.params[Len(callback.params)] = <<"grant_type", "authorization_code">>

====
